---- MODULE Spec2Model ----
(***************************************************************************)
(* Model of mcp_chatkit_widget: the identifier normaliser (naming.py), the *)
(* schema-to-model cache and the renderer (rendering.py), the tool         *)
(* synthesiser and the registration loop (tooling.py).                     *)
(*                                                                         *)
(* Text is a sequence of one-character strings, so that the character-wise *)
(* conversions of the code are computed, not assumed.                      *)
(***************************************************************************)
EXTENDS Integers, Sequences, FiniteSets, TLC

VARIABLES
    widget_defs,      \* the WidgetDefinition list handed to generate_widget_tools
    disk,             \* file_path -> template text of the .widget file now on disk
    model_cache,      \* functools.cache of _build_pydantic_model: key -> model
    template_cache,   \* functools.cache of _load_widget_template: path -> template
    from_file_calls,  \* file_path -> number of WidgetTemplate.from_file calls so far
    registered,       \* the server's tool registry: tool name -> tool
    widgets_dir,      \* the directory handed to load_widgets, and what it holds
    callers,          \* the renders in progress on concurrent threads
    result            \* what the last operation was given and returned or raised

vars == <<widget_defs, disk, model_cache, template_cache, from_file_calls,
          registered, widgets_dir, callers, result>>

-----------------------------------------------------------------------------
(* Bounds of the model.                                                    *)

\* properties per input schema
MaxProps == 2
\* widget definitions in one list
MaxDefs == 2
\* WidgetTemplate.from_file calls counted per file
MaxFromFileCalls == 2
\* threads rendering at the same time
MaxCallers == 2
\* characters of a name given to the functions of naming.py
MaxNameLen == 3

-----------------------------------------------------------------------------
(* Characters and Python's str predicates on them.                         *)

LowerSeq == <<"a","b","c","d","e","f","g","h","i","j","k","l","m",
              "n","o","p","q","r","s","t","u","v","w","x","y","z">>
UpperSeq == <<"A","B","C","D","E","F","G","H","I","J","K","L","M",
              "N","O","P","Q","R","S","T","U","V","W","X","Y","Z">>
DigitSeq == <<"0","1","2","3","4","5","6","7","8","9">>

Range(s) == {s[i] : i \in DOMAIN s}
IndexIn(c, s) == CHOOSE i \in DOMAIN s : s[i] = c

IsLower(c) == c \in Range(LowerSeq)
IsUpper(c) == c \in Range(UpperSeq)
IsAlpha(c) == IsLower(c) \/ IsUpper(c)
IsDigit(c) == c \in Range(DigitSeq)
IsAlnum(c) == IsAlpha(c) \/ IsDigit(c)

ToLower(c) == IF IsUpper(c) THEN LowerSeq[IndexIn(c, UpperSeq)] ELSE c
ToUpper(c) == IF IsLower(c) THEN UpperSeq[IndexIn(c, LowerSeq)] ELSE c

\* ord(c), for the characters the model uses
CodePoint(c) ==
    IF IsDigit(c) THEN 47 + IndexIn(c, DigitSeq)
    ELSE IF IsUpper(c) THEN 64 + IndexIn(c, UpperSeq)
    ELSE IF IsLower(c) THEN 96 + IndexIn(c, LowerSeq)
    ELSE CASE c = " " -> 32
           [] c = "!" -> 33
           [] c = "-" -> 45
           [] c = "." -> 46
           [] c = "/" -> 47
           [] c = "_" -> 95

\* str < str: lexicographic by code point, a proper prefix sorts first
RECURSIVE StrLess(_, _)
StrLess(a, b) ==
    IF b = <<>> THEN FALSE
    ELSE IF a = <<>> THEN TRUE
    ELSE IF a[1] # b[1] THEN CodePoint(a[1]) < CodePoint(b[1])
    ELSE StrLess(Tail(a), Tail(b))

-----------------------------------------------------------------------------
(* naming.py                                                               *)

\* str.lower()
RECURSIVE Lower(_)
Lower(s) == IF s = <<>> THEN <<>> ELSE <<ToLower(s[1])>> \o Lower(Tail(s))

\* str.replace(old, new) for a one-character old
RECURSIVE Replace(_, _, _)
Replace(s, old, new) ==
    IF s = <<>> THEN <<>>
    ELSE <<IF s[1] = old THEN new ELSE s[1]>> \o Replace(Tail(s), old, new)

\* "".join(c for c in s if c.isalnum())
RECURSIVE KeepAlnum(_)
KeepAlnum(s) ==
    IF s = <<>> THEN <<>>
    ELSE (IF IsAlnum(s[1]) THEN <<s[1]>> ELSE <<>>) \o KeepAlnum(Tail(s))

\* "".join(c for c in s if c.isalnum() or c == "_")
RECURSIVE KeepAlnumUnderscore(_)
KeepAlnumUnderscore(s) ==
    IF s = <<>> THEN <<>>
    ELSE (IF IsAlnum(s[1]) \/ s[1] = "_" THEN <<s[1]>> ELSE <<>>)
         \o KeepAlnumUnderscore(Tail(s))

\* _sanitize_tool_name prepending the underscore to every name that does
\* not start with a letter
_sanitize_tool_name_not_isalpha(widget_name) ==
    LET replaced == Replace(Replace(Lower(widget_name), " ", "_"), "-", "_")
        sanitized == KeepAlnumUnderscore(replaced)
    IN  IF sanitized # <<>> /\ ~IsAlpha(sanitized[1])
        THEN <<"_">> \o sanitized
        ELSE sanitized

_sanitize_tool_name(widget_name) ==
    LET replaced == Replace(Replace(Lower(widget_name), " ", "_"), "-", "_")
        sanitized == KeepAlnumUnderscore(replaced)
    IN  IF sanitized # <<>> /\ IsDigit(sanitized[1])
        THEN <<"_">> \o sanitized
        ELSE sanitized

\* str.split("_"): the segments between underscores, empty ones included
RECURSIVE SplitUnderscore(_, _)
SplitUnderscore(s, current) ==
    IF s = <<>> THEN <<current>>
    ELSE IF s[1] = "_" THEN <<current>> \o SplitUnderscore(Tail(s), <<>>)
    ELSE SplitUnderscore(Tail(s), Append(current, s[1]))

\* str.title(): a cased character is upper-cased when the character before it
\* is not cased, lower-cased otherwise; other characters are kept
RECURSIVE TitleFrom(_, _)
TitleFrom(s, previous_is_cased) ==
    IF s = <<>> THEN <<>>
    ELSE <<IF ~IsAlpha(s[1]) THEN s[1]
           ELSE IF previous_is_cased THEN ToLower(s[1]) ELSE ToUpper(s[1])>>
         \o TitleFrom(Tail(s), IsAlpha(s[1]))

\* str.capitalize(): the first character upper-cased, the others lower-cased
Capitalize(s) ==
    [i \in DOMAIN s |-> IF i = 1 THEN ToUpper(s[i]) ELSE ToLower(s[i])]

Title(s) == TitleFrom(s, FALSE)

RECURSIVE JoinTitled(_)
JoinTitled(components) ==
    IF components = <<>> THEN <<>>
    ELSE Title(components[1]) \o JoinTitled(Tail(components))

_to_camel_case(snake_str) == JoinTitled(SplitUnderscore(snake_str, <<>>))

-----------------------------------------------------------------------------
(* Python values that cross the model: each carries its type and its repr. *)

PyNone == [py_type |-> "NoneType", repr |-> "None"]
PyStr(text) == [py_type |-> "str", repr |-> text]
PyInt(text) == [py_type |-> "int", repr |-> text]
\* inspect.Parameter.empty, the "no default" marker
ParameterEmpty == [py_type |-> "_empty", repr |-> "empty"]
\* the default pydantic records for a required field
PydanticUndefined == [py_type |-> "PydanticUndefinedType", repr |-> "PydanticUndefined"]

-----------------------------------------------------------------------------
(* JSON schemas.  A schema is [properties, required]: properties is the    *)
(* object's entries in declaration order, each [name, type, has_default,   *)
(* default]; required is the set of names of the "required" list.          *)

PropertyNames(schema) == {schema.properties[i].name : i \in DOMAIN schema.properties}

\* insert one entry into a sequence already sorted by key
RECURSIVE InsertByName(_, _)
InsertByName(entry, sorted) ==
    IF sorted = <<>> THEN <<entry>>
    ELSE IF StrLess(entry.name, sorted[1].name) THEN <<entry>> \o sorted
    ELSE <<sorted[1]>> \o InsertByName(entry, Tail(sorted))

RECURSIVE SortByName(_)
SortByName(entries) ==
    IF entries = <<>> THEN <<>>
    ELSE InsertByName(entries[1], SortByName(Tail(entries)))

\* json.loads(json.dumps(schema)): the keys in the order of the schema
json_dumps(schema) ==
    [properties |-> schema.properties, required |-> schema.required]

\* json.loads(json.dumps(schema, sort_keys=True)): the same content with the
\* keys of every object in sorted order
json_dumps_sort_keys(schema) ==
    [properties |-> SortByName(schema.properties), required |-> schema.required]

-----------------------------------------------------------------------------
(* rendering.py: the compiled input model and its cache                    *)

_model_metadata(widget_name) ==
    LET camel_name == _to_camel_case(_sanitize_tool_name(widget_name))
    IN  [model_name |-> camel_name \o <<"M","o","d","e","l">>,
         schema_title |-> camel_name \o <<"A","r","g","u","m","e","n","t","s">>]

\* One field of the compiled model, from one schema property: required iff
\* the name is in the required list; an optional field defaults to the
\* schema's default, or to None when the schema declares none.
FieldOf(property, required) ==
    [name       |-> property.name,
     annotation |-> [type |-> property.type,
                     optional |-> property.name \notin required],
     required   |-> property.name \in required,
     default    |-> IF property.name \in required THEN PydanticUndefined
                    ELSE IF property.has_default THEN property.default
                    ELSE PyNone]

\* pydantic_conversion.json_schema_to_pydantic: one field per entry of
\* properties, in the order the entries are iterated
json_schema_to_pydantic(schema, model_name, schema_title) ==
    [model_name |-> model_name,
     fields |-> [i \in DOMAIN schema.properties |->
                    FieldOf(schema.properties[i], schema.required)]]

\* the arguments of the cached _build_pydantic_model call
ModelCacheKey(widget_def) ==
    [schema_dump |-> json_dumps_sort_keys(widget_def.json_schema),
     widget_name |-> widget_def.name]

_build_pydantic_model(schema_dump, widget_name) ==
    LET meta == _model_metadata(widget_name)
    IN  json_schema_to_pydantic(schema_dump, meta.model_name, meta.schema_title)

CachedKeys(cache) == {entry.key : entry \in cache}
CacheGet(cache, key) == (CHOOSE entry \in cache : entry.key = key).value

\* build_widget_model with a cache that looks the widget name up and not the
\* schema
build_widget_model_by_name(cache, widget_def) ==
    LET Miss(key, built) ==
            [model |-> built,
             cache |-> cache \cup {[key |-> key, value |-> built]}]
        Lookup(key) ==
            IF \E entry \in cache : entry.key.widget_name = key.widget_name
            THEN [model |-> (CHOOSE entry \in cache :
                                entry.key.widget_name = key.widget_name).value,
                  cache |-> cache]
            ELSE Miss(key, _build_pydantic_model(key.schema_dump, key.widget_name))
    IN  Lookup(ModelCacheKey(widget_def))

\* build_widget_model through the cache: the model returned and the cache after
build_widget_model(cache, widget_def) ==
    LET Miss(key, built) ==
            [model |-> built,
             cache |-> cache \cup {[key |-> key, value |-> built]}]
        Lookup(key) ==
            IF key \in CachedKeys(cache)
            THEN [model |-> CacheGet(cache, key), cache |-> cache]
            ELSE Miss(key, _build_pydantic_model(key.schema_dump, key.widget_name))
    IN  Lookup(ModelCacheKey(widget_def))

FieldNames(model) == {model.fields[i].name : i \in DOMAIN model.fields}

-----------------------------------------------------------------------------
(* Validation by the compiled model (pydantic).  Keyword arguments are a   *)
(* function from the supplied names to values; only names of the schema    *)
(* are supplied in this model.                                             *)

TypeAccepts(type, value) ==
    CASE type = "string" -> value.py_type = "str"
      [] type = "integer" -> value.py_type = "int"

\* the names the model rejects: a required field that is missing, or a
\* supplied value of the wrong type
ValidationErrors(model, kwargs) ==
    {model.fields[i].name : i \in
        {j \in DOMAIN model.fields :
            LET field == model.fields[j]
            IN  IF field.name \in DOMAIN kwargs
                THEN ~TypeAccepts(field.annotation.type, kwargs[field.name])
                ELSE field.required}}

\* model_dump(exclude_unset=True): only the fields that were supplied
RECURSIVE model_dump_exclude_unset(_, _)
model_dump_exclude_unset(model, kwargs) ==
    IF model.fields = <<>> THEN <<>>
    ELSE (IF model.fields[1].name \in DOMAIN kwargs
          THEN <<[key |-> model.fields[1].name,
                  value |-> kwargs[model.fields[1].name]]>>
          ELSE <<>>)
         \o model_dump_exclude_unset([model EXCEPT !.fields = Tail(@)], kwargs)

\* validated.model_dump(): every field, in field order, with the supplied
\* value or else the field's default
model_dump(model, kwargs) ==
    [i \in DOMAIN model.fields |->
        [key   |-> model.fields[i].name,
         value |-> IF model.fields[i].name \in DOMAIN kwargs
                   THEN kwargs[model.fields[i].name]
                   ELSE model.fields[i].default]]

\* d.setdefault(key, value): a key that is there keeps its value
DictSet_default(d, key, value) ==
    IF \E i \in DOMAIN d : d[i].key = key
    THEN d
    ELSE Append(d, [key |-> key, value |-> value])

\* a dict as the sequence of its items: d[key] = value keeps the place of
\* a key that is there and appends a new one
DictKeys(d) == {d[i].key : i \in DOMAIN d}
DictGet(d, key) == d[CHOOSE i \in DOMAIN d : d[i].key = key].value
DictSet(d, key, value) ==
    IF key \in DictKeys(d)
    THEN [i \in DOMAIN d |-> IF d[i].key = key
                             THEN [key |-> key, value |-> value] ELSE d[i]]
    ELSE Append(d, [key |-> key, value |-> value])

Undefined == <<"u","n","d","e","f","i","n","e","d">>

-----------------------------------------------------------------------------
(* The template engine (chatkit.widgets.WidgetTemplate), by its interface: *)
(* from_file compiles the template text of the file or raises; build       *)
(* renders a compiled template with a context or raises.                   *)

TemplateTexts == {"card", "bad_syntax", "bad_output"}
NotCached == "<not cached>"
NoTemplate == "<none>"

from_file_raises(text) == text = "bad_syntax"
build_raises(template) == template = "bad_output"

\* the output tree is a function of the compiled template and the context
NoTree == [template |-> NoTemplate, context |-> <<>>]
build(template, context) == [template |-> template, context |-> context]

\* _load_widget_template without the cache: every call calls from_file
_load_widget_template_uncached(cache, files, template_path) ==
    IF from_file_raises(files[template_path])
    THEN [raised |-> TRUE, called |-> TRUE,
          template |-> NoTemplate, cache |-> cache]
    ELSE [raised |-> FALSE, called |-> TRUE,
          template |-> files[template_path],
          cache |-> [cache EXCEPT ![template_path] = files[template_path]]]

\* _load_widget_template through functools.cache: a hit returns the cached
\* template; a miss calls from_file and caches what it returns, and caches
\* nothing when it raises
_load_widget_template(cache, files, template_path) ==
    IF cache[template_path] # NotCached
    THEN [raised |-> FALSE, called |-> FALSE,
          template |-> cache[template_path], cache |-> cache]
    ELSE IF from_file_raises(files[template_path])
    THEN [raised |-> TRUE, called |-> TRUE,
          template |-> NoTemplate, cache |-> cache]
    ELSE [raised |-> FALSE, called |-> TRUE,
          template |-> files[template_path],
          cache |-> [cache EXCEPT ![template_path] = files[template_path]]]

-----------------------------------------------------------------------------
(* Errors: the exception type and the widget name the exception carries.   *)

NoWidgetName == <<"<no widget name>">>
NoError == [type |-> "none", widget_name |-> NoWidgetName]
\* pydantic's ValidationError, raised by model(**kwargs)
ValidationError == [type |-> "ValidationError", widget_name |-> NoWidgetName]
\* whatever WidgetTemplate.from_file or WidgetTemplate.build raised
TemplateEngineError == [type |-> "TemplateEngineError", widget_name |-> NoWidgetName]
\* inspect.Parameter's ValueError for a name that is no parameter name
ParameterNameError == [type |-> "ValueError", widget_name |-> NoWidgetName]

-----------------------------------------------------------------------------
(* rendering.py: render_widget_definition                                  *)

NoContext == <<>>

\* line 46 storing the key into the preview the definition holds, as it
\* would with a context that is that object
StoreUndefined_into_preview(widget_def, render_context) ==
    [widget_def |->
         [widget_def EXCEPT
              !.output_json_preview =
                  [template |-> widget_def.output_json_preview.template,
                   context |-> DictSet(widget_def.output_json_preview.context,
                                       Undefined, PyNone)]],
     render_context |-> DictSet(render_context, Undefined, PyNone)]

\* line 46, render_context["undefined"] = None: the store goes into the
\* dict model_dump returned (line 45), an object of its own, and the
\* definition is the object it was
StoreUndefined(widget_def, render_context) ==
    [widget_def |-> widget_def,
     render_context |-> DictSet(render_context, Undefined, PyNone)]

\* render_widget_definition loading the template before it validates
render_widget_definition_load_first(models, templates, files, widget_def, kwargs) ==
    LET Raise(built, error, context, called, templates_after, def_after) ==
            [raised |-> TRUE, error |-> error, tree |-> NoTree,
             context |-> context, model |-> built.model,
             from_file_called |-> called,
             models |-> built.cache, templates |-> templates_after,
             widget_def |-> def_after]
        Return(built, tree, context, called, templates_after, def_after) ==
            [raised |-> FALSE, error |-> NoError, tree |-> tree,
             context |-> context, model |-> built.model,
             from_file_called |-> called,
             models |-> built.cache, templates |-> templates_after,
             widget_def |-> def_after]
        RenderWith(built, loaded, stored) ==
            IF build_raises(loaded.template)
            THEN Raise(built, TemplateEngineError, stored.render_context,
                       loaded.called, loaded.cache, stored.widget_def)
            ELSE Return(built, build(loaded.template, stored.render_context),
                        stored.render_context, loaded.called, loaded.cache,
                        stored.widget_def)
        Validate(built, loaded) ==
            IF ValidationErrors(built.model, kwargs) # {}
            THEN Raise(built, ValidationError, NoContext,
                       loaded.called, loaded.cache, widget_def)
            ELSE RenderWith(built, loaded,
                            StoreUndefined(widget_def,
                                           model_dump(built.model, kwargs)))
        Load(built, loaded) ==
            IF loaded.raised
            THEN Raise(built, TemplateEngineError, NoContext, TRUE, templates,
                       widget_def)
            ELSE Validate(built, loaded)
    IN  Load(build_widget_model(models, widget_def),
             _load_widget_template(templates, files, widget_def.file_path))

\* The outcome of one render: what was returned or raised, the context
\* handed to the engine (when one was built), the caches and the definition
\* afterwards.  The model is built and the arguments validated (lines
\* 42-43) before the template is loaded (line 44) and rendered (lines
\* 45-47).
render_widget_definition(models, templates, files, widget_def, kwargs) ==
    LET Raise(built, error, context, called, templates_after, def_after) ==
            [raised |-> TRUE, error |-> error, tree |-> NoTree,
             context |-> context, model |-> built.model,
             from_file_called |-> called,
             models |-> built.cache, templates |-> templates_after,
             widget_def |-> def_after]
        Return(built, tree, context, called, templates_after, def_after) ==
            [raised |-> FALSE, error |-> NoError, tree |-> tree,
             context |-> context, model |-> built.model,
             from_file_called |-> called,
             models |-> built.cache, templates |-> templates_after,
             widget_def |-> def_after]
        RenderWith(built, loaded, stored) ==
            IF build_raises(loaded.template)
            THEN Raise(built, TemplateEngineError, stored.render_context,
                       loaded.called, loaded.cache, stored.widget_def)
            ELSE Return(built, build(loaded.template, stored.render_context),
                        stored.render_context, loaded.called, loaded.cache,
                        stored.widget_def)
        Load(built, loaded) ==
            IF loaded.raised
            THEN Raise(built, TemplateEngineError, NoContext, TRUE, templates,
                       widget_def)
            ELSE RenderWith(built, loaded,
                            StoreUndefined(widget_def,
                                           model_dump(built.model, kwargs)))
        Validate(built) ==
            IF ValidationErrors(built.model, kwargs) # {}
            THEN Raise(built, ValidationError, NoContext, FALSE, templates,
                       widget_def)
            ELSE Load(built, _load_widget_template(templates, files,
                                                   widget_def.file_path))
    IN  Validate(build_widget_model(models, widget_def))

-----------------------------------------------------------------------------
(* tooling.py: _create_widget_tool_function                                *)

\* keyword.kwlist
PythonKeywords ==
    {<<"F","a","l","s","e">>,
     <<"N","o","n","e">>,
     <<"T","r","u","e">>,
     <<"a","n","d">>,
     <<"a","s">>,
     <<"a","s","s","e","r","t">>,
     <<"a","s","y","n","c">>,
     <<"a","w","a","i","t">>,
     <<"b","r","e","a","k">>,
     <<"c","l","a","s","s">>,
     <<"c","o","n","t","i","n","u","e">>,
     <<"d","e","f">>,
     <<"d","e","l">>,
     <<"e","l","i","f">>,
     <<"e","l","s","e">>,
     <<"e","x","c","e","p","t">>,
     <<"f","i","n","a","l","l","y">>,
     <<"f","o","r">>,
     <<"f","r","o","m">>,
     <<"g","l","o","b","a","l">>,
     <<"i","f">>,
     <<"i","m","p","o","r","t">>,
     <<"i","n">>,
     <<"i","s">>,
     <<"l","a","m","b","d","a">>,
     <<"n","o","n","l","o","c","a","l">>,
     <<"n","o","t">>,
     <<"o","r">>,
     <<"p","a","s","s">>,
     <<"r","a","i","s","e">>,
     <<"r","e","t","u","r","n">>,
     <<"t","r","y">>,
     <<"w","h","i","l","e">>,
     <<"w","i","t","h">>,
     <<"y","i","e","l","d">>}

\* str.isidentifier(), for the characters the model uses
isidentifier(name) ==
    /\ name # <<>>
    /\ IsAlpha(name[1]) \/ name[1] = "_"
    /\ \A i \in DOMAIN name : IsAlnum(name[i]) \/ name[i] = "_"

\* inspect.Parameter(name, KEYWORD_ONLY, ...) raises for these names
ParameterRaises(name) == name \in PythonKeywords \/ ~isidentifier(name)

\* the parameter of a field, without the is_required() branch
ParameterOf_always_default(field) ==
    [name       |-> field.name,
     kind       |-> "KEYWORD_ONLY",
     default    |-> field.default,
     annotation |-> field.annotation]

\* the parameter declared for one model field
ParameterOf(field) ==
    [name       |-> field.name,
     kind       |-> "KEYWORD_ONLY",
     default    |-> IF field.required THEN ParameterEmpty ELSE field.default,
     annotation |-> field.annotation]

\* __name__ left in snake case
camel_name_snake(widget_def) == _sanitize_tool_name(widget_def.name)

\* widget_tool.__name__
camel_name(widget_def) == _to_camel_case(_sanitize_tool_name(widget_def.name))

\* the body of widget_tool reading a variable of the registration loop, which
\* holds the last definition of the list once the loop has ended
BoundWidgetDef_last(defs, index) == Len(defs)

\* the definition the body of widget_tool reads: the argument of the call of
\* _create_widget_tool_function that defined it
BoundWidgetDef(defs, index) == index

NoTool == [made_from |-> 0, closure_widget_def |-> 0, name |-> <<>>,
           parameters |-> <<>>, return_annotation |-> "none"]

\* The tool returned for the definition at position index of defs, or the
\* error raised; the model cache afterwards.  made_from records which
\* definition the call was given; closure_widget_def is the definition the
\* body of widget_tool reads when it is called.
_create_widget_tool_function(models, defs, index) ==
    LET Tool(fields) ==
            [made_from |-> index,
             closure_widget_def |-> BoundWidgetDef(defs, index),
             name |-> camel_name(defs[index]),
             parameters |-> [i \in DOMAIN fields |-> ParameterOf(fields[i])],
             return_annotation |-> "WidgetComponentBase"]
        Declare(built) ==
            IF \E i \in DOMAIN built.model.fields :
                   ParameterRaises(built.model.fields[i].name)
            THEN [raised |-> TRUE, error |-> ParameterNameError,
                  tool |-> NoTool, models |-> built.cache]
            ELSE [raised |-> FALSE, error |-> NoError,
                  tool |-> Tool(built.model.fields), models |-> built.cache]
    IN  Declare(build_widget_model(models, defs[index]))

-----------------------------------------------------------------------------
(* tooling.py: generate_widget_tools and the server's registry             *)

\* a registry that keeps the tool first registered under a name
server_tool_keep_first(registry, tool_name, tool) ==
    IF \E entry \in registry : entry.name = tool_name
    THEN registry
    ELSE registry \cup {[name |-> tool_name, tool |-> tool]}

\* server.tool(name=tool_name)(tool_func): the registry maps the name to the
\* tool, replacing a tool already registered under that name
server_tool(registry, tool_name, tool) ==
    {entry \in registry : entry.name # tool_name}
        \cup {[name |-> tool_name, tool |-> tool]}

\* the loop of generate_widget_tools from position index on: an error of
\* _create_widget_tool_function ends the loop and leaves what was registered
RECURSIVE GenerateFrom(_, _, _, _)
GenerateFrom(models, registry, defs, index) ==
    LET Register(made) ==
            IF made.raised
            THEN [raised |-> TRUE, error |-> made.error, failed_at |-> index,
                  models |-> made.models, registry |-> registry]
            ELSE GenerateFrom(made.models,
                              server_tool(registry,
                                          _sanitize_tool_name(defs[index].name),
                                          made.tool),
                              defs, index + 1)
    IN  IF index > Len(defs)
        THEN [raised |-> FALSE, error |-> NoError, failed_at |-> 0,
              models |-> models, registry |-> registry]
        ELSE Register(_create_widget_tool_function(models, defs, index))

\* generate_widget_tools registering nothing unless every tool was
\* synthesized
generate_widget_tools_all_or_nothing(models, registry, defs) ==
    LET Commit(done) ==
            IF done.raised THEN [done EXCEPT !.registry = registry] ELSE done
    IN  Commit(GenerateFrom(models, registry, defs, 1))

\* generate_widget_tools: the loop of lines 66-69 over the definitions
generate_widget_tools(models, registry, defs) ==
    GenerateFrom(models, registry, defs, 1)

-----------------------------------------------------------------------------
(* widget_loader.py.  A .widget file is [syntax_ok, data]: data is the     *)
(* JSON object its text spells out, a function from the keys present to    *)
(* their values, and syntax_ok tells whether json.load can parse the text. *)
(* A directory argument is [kind, files, entries]: files maps each path    *)
(* matching *.widget under the directory to the file read there, entries   *)
(* maps it to [is_file, resolves, canonical]: what Path.is_file answers,   *)
(* whether Path.resolve returns, and the path it returns.                  *)

\* The exceptions of the loader and what their messages say.  type is the
\* class of the exception object, fields the field names the message lists.
LoaderError(type, message, fields) ==
    [type |-> type, message |-> message, fields |-> fields,
     widget_name |-> NoWidgetName]

\* the classes an exception of a class is an instance of
ExceptionBases(type) ==
    CASE type = "JSONDecodeError" -> {"JSONDecodeError", "ValueError", "Exception"}
      [] type = "ValueError" -> {"ValueError", "Exception"}
      [] type = "TypeError" -> {"TypeError", "Exception"}
      [] OTHER -> {"Exception"}

\* json.load on text that is not JSON
JSONDecodeError == LoaderError("JSONDecodeError", "Expecting value", <<>>)
\* widget_loader.py line 127
MissingFieldsError(missing) ==
    LoaderError("ValueError", "missing required fields", missing)
\* widget_loader.py line 134
TemplateNotStringError ==
    LoaderError("ValueError", "Widget template must be a string", <<>>)
\* widget_loader.py lines 44, 47, 49
DirRequiredError ==
    LoaderError("ValueError", "The widgets_dir argument is required to load widgets.", <<>>)
DirDoesNotExistError ==
    LoaderError("ValueError", "Widgets directory does not exist", <<>>)
DirNotADirectoryError ==
    LoaderError("ValueError", "Widgets directory is not a directory", <<>>)

required_fields == <<"name", "version", "jsonSchema", "outputJsonPreview", "template">>

\* [field for field in required_fields if field not in data]
missing_fields(data) ==
    LET Absent(field) == field \notin DOMAIN data
    IN  SelectSeq(required_fields, Absent)

NoWidgetDefinition == [name |-> <<>>, file_path |-> 0]

\* what load_widget hands back when it raises
LoadRaised(error) ==
    [raised |-> TRUE, error |-> error, widget_def |-> NoWidgetDefinition]

\* lines 132-144: the template must be a str, and the definition is built
\* from the values of the file
BuildWidgetDefinition(data, widget_path) ==
    IF data["template"].py_type # "str" THEN LoadRaised(TemplateNotStringError)
    ELSE [raised |-> FALSE, error |-> NoError,
          widget_def |->
              [name |-> data["name"],
               version |-> data["version"],
               json_schema |-> data["jsonSchema"],
               output_json_preview |-> data["outputJsonPreview"],
               template |-> data["template"].repr,
               encoded_widget |-> IF "encodedWidget" \in DOMAIN data
                                  THEN data["encodedWidget"] ELSE PyNone,
               file_path |-> widget_path]]

\* load_widget checking the required fields on the text before it parses it
load_widget_check_first(files, widget_path) ==
    LET Check(file, missing) ==
            IF missing # <<>> THEN LoadRaised(MissingFieldsError(missing))
            ELSE IF ~file.syntax_ok THEN LoadRaised(JSONDecodeError)
            ELSE BuildWidgetDefinition(file.data, widget_path)
        Open(file) == Check(file, missing_fields(file.data))
    IN  Open(files[widget_path])

\* load_widget reporting the first missing field only
load_widget_first_missing(files, widget_path) ==
    LET Check(file, missing) ==
            IF ~file.syntax_ok THEN LoadRaised(JSONDecodeError)
            ELSE IF missing # <<>>
            THEN LoadRaised(MissingFieldsError(<<missing[1]>>))
            ELSE BuildWidgetDefinition(file.data, widget_path)
        Open(file) == Check(file, missing_fields(file.data))
    IN  Open(files[widget_path])

\* load_widget: the definition built from the file at widget_path, or the
\* error raised.  json.load runs first (line 122), then the required fields
\* are checked (124-130), then the type of the template (132-134).
load_widget(files, widget_path) ==
    LET Check(file, missing) ==
            IF ~file.syntax_ok THEN LoadRaised(JSONDecodeError)
            ELSE IF missing # <<>> THEN LoadRaised(MissingFieldsError(missing))
            ELSE BuildWidgetDefinition(file.data, widget_path)
        Open(file) == Check(file, missing_fields(file.data))
    IN  Open(files[widget_path])

\* _validate_widgets_dir without the is_dir test of line 48
_validate_widgets_dir_without_is_dir(dir) ==
    CASE dir.kind = "unset" -> DirRequiredError
      [] dir.kind = "missing" -> DirDoesNotExistError
      [] OTHER -> NoError

\* _validate_widgets_dir: the error raised for the directory argument, or
\* NoError
_validate_widgets_dir(dir) ==
    CASE dir.kind = "unset" -> DirRequiredError
      [] dir.kind = "missing" -> DirDoesNotExistError
      [] dir.kind = "not_a_directory" -> DirNotADirectoryError
      [] OTHER -> NoError

\* The paths rglob("*.widget") can yield, relative to the directory, each as
\* the tuple of its components (Path.parts): a/b.widget, a-b.widget,
\* b.widget, c.widget, and names of z after them.
PathParts(path) ==
    CASE path = 1 -> << <<"a">>, <<"b",".","w","i","d","g","e","t">> >>
      [] path = 2 -> << <<"a","-","b",".","w","i","d","g","e","t">> >>
      [] path = 3 -> << <<"b",".","w","i","d","g","e","t">> >>
      [] path = 4 -> << <<"c",".","w","i","d","g","e","t">> >>
      [] OTHER -> << [i \in 1..path |-> "z"]
                     \o <<".","w","i","d","g","e","t">> >>

\* str(path): the components joined by "/"
RECURSIVE PathString(_)
PathString(parts) ==
    IF Len(parts) = 1 THEN parts[1]
    ELSE parts[1] \o <<"/">> \o PathString(Tail(parts))

\* a path sorting before another as text does, character by character
PathStringLess(path, other) ==
    StrLess(PathString(PathParts(path)), PathString(PathParts(other)))

\* tuple < tuple on the components of two paths
RECURSIVE PartsLess(_, _)
PartsLess(a, b) ==
    IF b = <<>> THEN FALSE
    ELSE IF a = <<>> THEN TRUE
    ELSE IF a[1] # b[1] THEN StrLess(a[1], b[1])
    ELSE PartsLess(Tail(a), Tail(b))

\* Path < Path: pathlib compares the components of the two paths
PathLess(path, other) == PartsLess(PathParts(path), PathParts(other))

\* sorted(paths)
RECURSIVE SortedPaths(_)
SortedPaths(paths) ==
    IF paths = {} THEN <<>>
    ELSE LET least == CHOOSE path \in paths :
                          \A other \in paths \ {path} : PathLess(path, other)
         IN  <<least>> \o SortedPaths(paths \ {least})

\* the canonical path of a file that resolves to a place outside the directory
Outside == 0

\* LOGGER.warning of lines 64-68, 73-76 and 98
UnresolvableWarning(widget_file) ==
    [text |-> "could not be resolved", path |-> widget_file]
OutsideWarning(widget_file) ==
    [text |-> "outside the widgets directory", path |-> widget_file]
NoWidgetsWarning == [text |-> "No widget definitions found", path |-> 0]

\* the warning the loop of _collect_widget_files logs for a candidate
SkipWarning(widget_file, entry) ==
    IF ~entry.is_file THEN <<>>
    ELSE IF ~entry.resolves THEN <<UnresolvableWarning(widget_file)>>
    ELSE IF entry.canonical = Outside THEN <<OutsideWarning(widget_file)>>
    ELSE <<>>

\* the loop appending a candidate whether or not its resolved path was seen
IsAppended_ignoring_seen(entry, seen_files) ==
    /\ entry.is_file
    /\ entry.resolves
    /\ entry.canonical # Outside

\* whether the loop of _collect_widget_files appends a candidate: it is a
\* file (59), resolves (61-69), lies under the directory (70-77) and its
\* resolved path was not seen (78)
IsAppended(entry, seen_files) ==
    /\ entry.is_file
    /\ entry.resolves
    /\ entry.canonical # Outside
    /\ entry.canonical \notin seen_files

\* the loop of _collect_widget_files ending at the first candidate it warns
\* about
RECURSIVE CollectUntilSkipped(_, _, _, _, _)
CollectUntilSkipped(entries, candidates, seen_files, widget_files, warnings) ==
    LET Step(widget_file, entry, kept, warned) ==
            IF warned # <<>>
            THEN [widget_files |-> widget_files,
                  warnings |-> warnings \o warned]
            ELSE CollectUntilSkipped(
                     entries, Tail(candidates),
                     IF kept THEN seen_files \union {entry.canonical}
                     ELSE seen_files,
                     IF kept THEN Append(widget_files, widget_file)
                     ELSE widget_files,
                     warnings)
        Visit(widget_file, entry) ==
            Step(widget_file, entry, IsAppended(entry, seen_files),
                 SkipWarning(widget_file, entry))
    IN  IF candidates = <<>>
        THEN [widget_files |-> widget_files, warnings |-> warnings]
        ELSE Visit(candidates[1], entries[candidates[1]])

\* the loop of _collect_widget_files (lines 58-82) over the sorted
\* candidates: the files kept, as the paths rglob yielded, and the warnings
\* logged
RECURSIVE CollectFrom(_, _, _, _, _)
CollectFrom(entries, candidates, seen_files, widget_files, warnings) ==
    LET Step(widget_file, entry, kept) ==
            CollectFrom(entries, Tail(candidates),
                        IF kept THEN seen_files \union {entry.canonical}
                        ELSE seen_files,
                        IF kept THEN Append(widget_files, widget_file)
                        ELSE widget_files,
                        warnings \o SkipWarning(widget_file, entry))
        Visit(widget_file, entry) ==
            Step(widget_file, entry, IsAppended(entry, seen_files))
    IN  IF candidates = <<>>
        THEN [widget_files |-> widget_files, warnings |-> warnings]
        ELSE Visit(candidates[1], entries[candidates[1]])

\* _collect_widget_files: the *.widget files under the directory, sorted,
\* without what is no file, does not resolve, lies outside or was seen
_collect_widget_files(dir) ==
    CollectFrom(dir.entries, SortedPaths(DOMAIN dir.entries), {}, <<>>, <<>>)

\* the paths of the definitions of a list
FilePaths(defs) == [i \in DOMAIN defs |-> defs[i].file_path]

\* the comprehension of line 100 leaving out the files that do not load
RECURSIVE LoadEachSkipping(_, _, _)
LoadEachSkipping(files, widget_files, loaded_defs) ==
    LET Collect(loaded) ==
            LoadEachSkipping(files, Tail(widget_files),
                             IF loaded.raised THEN loaded_defs
                             ELSE Append(loaded_defs, loaded.widget_def))
    IN  IF widget_files = <<>>
        THEN [raised |-> FALSE, error |-> NoError, defs |-> loaded_defs,
              failed_path |-> 0, opened |-> FilePaths(loaded_defs)]
        ELSE Collect(load_widget(files, widget_files[1]))

\* [load_widget(widget_file) for widget_file in widget_files]: the first
\* load that raises ends the comprehension, and no list is returned
RECURSIVE LoadEach(_, _, _)
LoadEach(files, widget_files, loaded_defs) ==
    LET Collect(loaded) ==
            IF loaded.raised
            THEN [raised |-> TRUE, error |-> loaded.error, defs |-> <<>>,
                  failed_path |-> widget_files[1],
                  opened |-> Append(FilePaths(loaded_defs), widget_files[1])]
            ELSE LoadEach(files, Tail(widget_files),
                          Append(loaded_defs, loaded.widget_def))
    IN  IF widget_files = <<>>
        THEN [raised |-> FALSE, error |-> NoError, defs |-> loaded_defs,
              failed_path |-> 0, opened |-> FilePaths(loaded_defs)]
        ELSE Collect(load_widget(files, widget_files[1]))

\* lines 97-98 never logging
WarnWhenEmpty_never(widget_files) == <<>>

\* lines 97-98: if not widget_files: LOGGER.warning(...)
WarnWhenEmpty(widget_files) ==
    IF widget_files = <<>> THEN <<NoWidgetsWarning>> ELSE <<>>

\* load_widgets: the directory is validated (94), the files are collected
\* (95), a warning is logged when there is none (97-98), and each file is
\* loaded (100).  scanned tells whether rglob ran, opened lists the files
\* load_widget was called on.
load_widgets(dir) ==
    LET Finish(loaded, warnings) ==
            [raised |-> loaded.raised, error |-> loaded.error,
             defs |-> loaded.defs, failed_path |-> loaded.failed_path,
             warnings |-> warnings, scanned |-> TRUE,
             opened |-> loaded.opened]
        Loaded(collected) ==
            Finish(LoadEach(dir.files, collected.widget_files, <<>>),
                   collected.warnings \o WarnWhenEmpty(collected.widget_files))
        Validated(error) ==
            IF error # NoError
            THEN [raised |-> TRUE, error |-> error, defs |-> <<>>,
                  failed_path |-> 0, warnings |-> <<>>, scanned |-> FALSE,
                  opened |-> <<>>]
            ELSE Loaded(_collect_widget_files(dir))
    IN  Validated(_validate_widgets_dir(dir))

-----------------------------------------------------------------------------
(* server.py: register_widget_tools                                        *)

\* register_widget_tools loading and registering one file after the other
register_widget_tools_file_by_file(models, registry, dir) ==
    LET Outcome(done, loaded) ==
            [raised |-> loaded.raised \/ done.raised,
             error |-> IF loaded.raised THEN loaded.error ELSE done.error,
             failed_at |-> done.failed_at, defs |-> loaded.defs,
             models |-> done.models, registry |-> done.registry]
        Partial(loaded, paths) ==
            Outcome(generate_widget_tools(
                        models, registry,
                        IF loaded.raised
                        THEN LoadEach(dir.files,
                                      SelectSeq(paths, LAMBDA path :
                                          PathLess(path, loaded.failed_path)),
                                      <<>>).defs
                        ELSE loaded.defs),
                    loaded)
    IN  IF _validate_widgets_dir(dir) # NoError
        THEN [raised |-> TRUE, error |-> _validate_widgets_dir(dir),
              failed_at |-> 0, defs |-> <<>>,
              models |-> models, registry |-> registry]
        ELSE Partial(load_widgets(dir), _collect_widget_files(dir).widget_files)

\* register_widget_tools: load_widgets runs to its end first (line 19), and
\* generate_widget_tools registers only when it returned (line 20)
register_widget_tools(models, registry, dir) ==
    LET Registered(done, loaded) ==
            [raised |-> done.raised, error |-> done.error,
             failed_at |-> done.failed_at, defs |-> loaded.defs,
             models |-> done.models, registry |-> done.registry]
        Loaded(loaded) ==
            IF loaded.raised
            THEN [raised |-> TRUE, error |-> loaded.error, failed_at |-> 0,
                  defs |-> <<>>, models |-> models, registry |-> registry]
            ELSE Registered(generate_widget_tools(models, registry, loaded.defs),
                            loaded)
    IN  Loaded(load_widgets(dir))

-----------------------------------------------------------------------------
(* The inputs of the model.                                                *)

\* widget display names: "A b", "a-b", "1a", "!"
DisplayNames == {<<"A"," ","b">>, <<"a","-","b">>, <<"1","a">>, <<"!">>}

\* schema property names: "if", "t", "undefined"
SchemaPropertyNames == {<<"i","f">>, <<"t">>, Undefined}

\* a property without and with a declared default
PropertiesNamed(name) ==
    {[name |-> name, type |-> "string", has_default |-> FALSE, default |-> PyNone],
     [name |-> name, type |-> "string", has_default |-> TRUE, default |-> PyStr("x")]}

AllProperties == UNION {PropertiesNamed(name) : name \in SchemaPropertyNames}

\* the property lists of a JSON object: no key twice
PropertyLists(n) ==
    {list \in [1..n -> AllProperties] :
        \A i, j \in 1..n : i # j => list[i].name # list[j].name}

\* a "required" list names properties that declare no default
SchemasOver(properties) ==
    {[properties |-> properties, required |-> required] :
        required \in SUBSET {properties[i].name :
                                i \in {j \in DOMAIN properties :
                                          ~properties[j].has_default}}}

SchemaUniverse ==
    UNION {SchemasOver(list) : list \in UNION {PropertyLists(n) : n \in 0..MaxProps}}

\* the schemas of the definitions of a list of several
ListSchemas ==
    {[properties |-> <<[name |-> <<"t">>, type |-> "string",
                        has_default |-> FALSE, default |-> PyNone]>>,
      required |-> {<<"t">>}],
     [properties |-> <<[name |-> Undefined, type |-> "string",
                        has_default |-> TRUE, default |-> PyStr("x")]>>,
      required |-> {}]}

Preview == [template |-> "card", context |-> <<>>]

\* WidgetDefinition as load_widget builds it from the file at file_path
WidgetDefinition(name, json_schema, template, file_path) ==
    [name |-> name, version |-> "1.0", json_schema |-> json_schema,
     output_json_preview |-> Preview, template |-> template,
     encoded_widget |-> PyNone, file_path |-> file_path]

\* one definition: of any schema, or of any display name and template
SingleLists ==
    {<<WidgetDefinition(<<"A"," ","b">>, schema, "card", 1)>> :
        schema \in SchemaUniverse}
    \cup {<<WidgetDefinition(name, schema, template, 1)>> :
            name \in DisplayNames, schema \in ListSchemas,
            template \in TemplateTexts}

\* display names of the definitions of a list of several: two that sanitize
\* to the same tool name and one that sanitizes to the empty name
ListDisplayNames == {<<"A"," ","b">>, <<"a","-","b">>, <<"!">>}

\* the definitions of a list of two: any of the names with any of the
\* schemas
PairDefinitions ==
    {WidgetDefinition(name, schema, "card", 0) :
        name \in ListDisplayNames, schema \in ListSchemas}

\* the definitions of a longer list: each of the names, the two that
\* sanitize to one tool name with different schemas
TripleDefinitions ==
    {WidgetDefinition(name,
                      CHOOSE schema \in ListSchemas :
                          (schema.required = {}) <=> (name = <<"a","-","b">>),
                      "card", 0) :
        name \in ListDisplayNames}

\* several definitions, each loaded from a file of its own
SeveralLists ==
    UNION {[1..n -> IF n = 2 THEN PairDefinitions ELSE TripleDefinitions]
           : n \in 2..MaxDefs}

\* lists of three with one definition no tool can be synthesized from, its
\* schema declaring a property named "if", among definitions of other tool
\* names
KeywordSchema ==
    [properties |-> <<[name |-> <<"i","f">>, type |-> "string",
                       has_default |-> FALSE, default |-> PyNone]>>,
     required |-> {<<"i","f">>}]
NameAt(position) ==
    CASE position = 1 -> <<"A"," ","b">>
      [] position = 2 -> <<"!">>
      [] OTHER -> <<"1","a">>
FailingLists ==
    {[i \in 1..3 |->
         WidgetDefinition(NameAt(i),
                          IF i = failing THEN KeywordSchema
                          ELSE CHOOSE schema \in ListSchemas :
                                   schema.required # {},
                          "card", 0)] :
        failing \in 1..3}

WithFilePaths(list) == [i \in DOMAIN list |-> [list[i] EXCEPT !.file_path = i]]

\* the same schema with the keys of its properties in the reverse order
ReverseKeys(schema) ==
    [properties |-> [i \in DOMAIN schema.properties |->
                        schema.properties[Len(schema.properties) + 1 - i]],
     required |-> schema.required]

\* two definitions of one name whose schemas are equal up to the order of
\* their keys
PermutedLists ==
    {<<WidgetDefinition(<<"A"," ","b">>, schema, "card", 0),
       WidgetDefinition(<<"A"," ","b">>, ReverseKeys(schema), "card", 0)>> :
        schema \in {candidate \in SchemaUniverse :
                       /\ Len(candidate.properties) = 2
                       /\ <<"i","f">> \notin PropertyNames(candidate)}}

\* the .widget file load_widget reads a definition from
FileOf(widget_def) ==
    [syntax_ok |-> TRUE,
     data |-> ("name" :> widget_def.name)
              @@ ("version" :> widget_def.version)
              @@ ("jsonSchema" :> widget_def.json_schema)
              @@ ("outputJsonPreview" :> widget_def.output_json_preview)
              @@ ("template" :> PyStr(widget_def.template))]

\* a regular file at a path under the directory
RegularFile(path) == [is_file |-> TRUE, resolves |-> TRUE, canonical |-> path]

\* the directory the definitions of a list were loaded from
DirectoryOf(defs) ==
    [kind |-> "directory", files |-> [i \in DOMAIN defs |-> FileOf(defs[i])],
     entries |-> [i \in DOMAIN defs |-> RegularFile(i)]]

\* the file without some of its keys
Without(file, keys) ==
    [syntax_ok |-> file.syntax_ok,
     data |-> [key \in DOMAIN file.data \ keys |-> file.data[key]]]

TemplateNotString(file) ==
    [syntax_ok |-> file.syntax_ok,
     data |-> [key \in DOMAIN file.data |->
                  IF key = "template" THEN PyInt("1") ELSE file.data[key]]]

NotJson(file) == [syntax_ok |-> FALSE, data |-> file.data]

\* a file gone wrong: any required fields missing, a template that is a
\* number, text that is not JSON (with or without all the fields spelled)
DamagedFiles(file) ==
    {Without(file, keys) : keys \in (SUBSET Range(required_fields)) \ {{}}}
    \cup {TemplateNotString(file), NotJson(file),
          NotJson(Without(file, {"template"})),
          TemplateNotString(Without(file, {"name", "version"}))}

FewDamagedFiles(file) ==
    {Without(file, {"template"}), TemplateNotString(file), NotJson(file)}

\* what load_widgets can be handed in place of the directory of defs: no
\* directory, or the directory with one file gone wrong
DamagedDirectories(defs) ==
    {[kind |-> kind, files |-> <<>>, entries |-> <<>>] :
        kind \in {"unset", "missing", "not_a_directory"}}
    \cup UNION {{[kind |-> "directory",
                  files |-> [path \in DOMAIN defs |->
                                IF path = damaged THEN file
                                ELSE FileOf(defs[path])],
                  entries |-> [path \in DOMAIN defs |-> RegularFile(path)]] :
                    file \in IF Len(defs) = 1
                             THEN DamagedFiles(FileOf(defs[damaged]))
                             ELSE FewDamagedFiles(FileOf(defs[damaged]))} :
                damaged \in DOMAIN defs}

\* the lists whose directory is also taken damaged
DamageBases ==
    {WithFilePaths(<<WidgetDefinition(<<"A"," ","b">>, schema, "card", 0)>>) :
        schema \in {candidate \in ListSchemas : candidate.required # {}}}
    \cup {WithFilePaths(<<WidgetDefinition(<<"A"," ","b">>, first, "card", 0),
                          WidgetDefinition(<<"!">>, second, "card", 0)>>) :
            first \in {candidate \in ListSchemas : candidate.required # {}},
            second \in {candidate \in ListSchemas : candidate.required = {}}}

Directories(defs) ==
    {DirectoryOf(defs)}
    \cup (IF defs \in DamageBases THEN DamagedDirectories(defs) ELSE {})

\* the keyword arguments of a call: any subset of the schema's names, each
\* with a string or with an integer
ArgumentValues == {PyStr("v"), PyInt("1")}
KeywordArguments(widget_def) ==
    UNION {[names -> ArgumentValues] :
              names \in SUBSET PropertyNames(widget_def.json_schema)}
NoArguments == [name \in {} |-> PyNone]

-----------------------------------------------------------------------------
(* The state machine.                                                      *)

NoModel == [model_name |-> <<>>, fields |-> <<>>]

\* the record of an operation that returned nothing worth recording
Returned(op, index) ==
    [op |-> op, index |-> index, tool |-> NoTool, kwargs |-> NoArguments,
     raised |-> FALSE, error |-> NoError, model |-> NoModel,
     context |-> NoContext, tree |-> NoTree, from_file_called |-> FALSE,
     template_path |-> 0, failed_at |-> 0, loaded |-> <<>>, widget_path |-> 0,
     selected |-> <<>>, warnings |-> <<>>, scanned |-> FALSE, opened |-> <<>>]

Init ==
    /\ widget_defs \in {WithFilePaths(list) :
                           list \in SingleLists \cup SeveralLists
                                    \cup PermutedLists \cup FailingLists}
    /\ widgets_dir \in Directories(widget_defs)
    /\ callers = <<>>
    /\ disk = [path \in DOMAIN widget_defs |-> widget_defs[path].template]
    /\ model_cache = {}
    /\ template_cache = [path \in DOMAIN widget_defs |-> NotCached]
    /\ from_file_calls = [path \in DOMAIN widget_defs |-> 0]
    /\ registered = {}
    /\ result = Returned("none", 0)

\* build_widget_model(widget_defs[index])
BuildWidgetModel(index) ==
    LET Apply(built) ==
            /\ model_cache' = built.cache
            /\ result' = [Returned("build_widget_model", index) EXCEPT
                              !.model = built.model]
    IN  /\ Apply(build_widget_model(model_cache, widget_defs[index]))
        /\ UNCHANGED <<widget_defs, disk, template_cache, from_file_calls,
                       registered, widgets_dir, callers>>

\* _create_widget_tool_function(widget_defs[index])
CreateWidgetToolFunction(index) ==
    LET Apply(made) ==
            /\ model_cache' = made.models
            /\ result' = [Returned("_create_widget_tool_function", index) EXCEPT
                              !.raised = made.raised, !.error = made.error,
                              !.tool = made.tool]
    IN  /\ Apply(_create_widget_tool_function(model_cache, widget_defs, index))
        /\ UNCHANGED <<widget_defs, disk, template_cache, from_file_calls,
                       registered, widgets_dir, callers>>

\* generate_widget_tools(server, widget_defs)
GenerateWidgetTools ==
    LET Apply(done) ==
            /\ model_cache' = done.models
            /\ registered' = done.registry
            /\ result' = [Returned("generate_widget_tools", 0) EXCEPT
                              !.raised = done.raised, !.error = done.error,
                              !.failed_at = done.failed_at]
    IN  /\ Apply(generate_widget_tools(model_cache, registered, widget_defs))
        /\ UNCHANGED <<widget_defs, disk, template_cache, from_file_calls,
                       widgets_dir, callers>>

\* load_widget(widget_path), for a file of the directory
LoadWidget(widget_path) ==
    LET Apply(loaded) ==
            result' = [Returned("load_widget", 0) EXCEPT
                           !.raised = loaded.raised, !.error = loaded.error,
                           !.loaded = IF loaded.raised THEN <<>>
                                      ELSE <<loaded.widget_def>>,
                           !.widget_path = widget_path]
    IN  /\ Apply(load_widget(widgets_dir.files, widget_path))
        /\ UNCHANGED <<widget_defs, disk, model_cache, template_cache,
                       from_file_calls, registered, widgets_dir, callers>>

\* load_widgets(widgets_dir)
LoadWidgets ==
    LET Apply(loaded) ==
            result' = [Returned("load_widgets", 0) EXCEPT
                           !.raised = loaded.raised, !.error = loaded.error,
                           !.loaded = loaded.defs,
                           !.widget_path = loaded.failed_path,
                           !.selected = FilePaths(loaded.defs),
                           !.warnings = loaded.warnings,
                           !.scanned = loaded.scanned,
                           !.opened = loaded.opened]
    IN  /\ Apply(load_widgets(widgets_dir))
        /\ UNCHANGED <<widget_defs, disk, model_cache, template_cache,
                       from_file_calls, registered, widgets_dir, callers>>

\* register_widget_tools(widgets_dir)
RegisterWidgetTools ==
    LET Apply(done) ==
            /\ model_cache' = done.models
            /\ registered' = done.registry
            /\ result' = [Returned("register_widget_tools", 0) EXCEPT
                              !.raised = done.raised, !.error = done.error,
                              !.failed_at = done.failed_at,
                              !.loaded = done.defs]
    IN  /\ Apply(register_widget_tools(model_cache, registered, widgets_dir))
        /\ UNCHANGED <<widget_defs, disk, template_cache, from_file_calls,
                       widgets_dir, callers>>

\* the effect of one render on the state, recorded under op
Render(op, tool, index, kwargs) ==
    LET Apply(out, path) ==
            /\ out.from_file_called => from_file_calls[path] < MaxFromFileCalls
            /\ widget_defs' = [widget_defs EXCEPT ![index] = out.widget_def]
            /\ model_cache' = out.models
            /\ template_cache' = out.templates
            /\ from_file_calls' =
                   IF out.from_file_called
                   THEN [from_file_calls EXCEPT ![path] = @ + 1]
                   ELSE from_file_calls
            /\ result' = [Returned(op, index) EXCEPT
                              !.tool = tool, !.kwargs = kwargs,
                              !.raised = out.raised, !.error = out.error,
                              !.model = out.model, !.context = out.context,
                              !.tree = out.tree,
                              !.from_file_called = out.from_file_called,
                              !.template_path = path]
    IN  /\ Apply(render_widget_definition(model_cache, template_cache, disk,
                                          widget_defs[index], kwargs),
                 widget_defs[index].file_path)
        /\ UNCHANGED <<disk, registered, widgets_dir, callers>>

\* render_widget_definition(widget_defs[index], **kwargs)
RenderWidgetDefinition(index, kwargs) ==
    Render("render_widget_definition", NoTool, index, kwargs)

\* widget_tool(**kwargs), the body of a synthesized tool
WidgetTool(tool, kwargs) ==
    Render("widget_tool", tool, tool.closure_widget_def, kwargs)

\* the tools a caller can hold: the registered ones, and the one the last
\* operation returned or called
CallableTools == ({entry.tool : entry \in registered} \cup {result.tool}) \ {NoTool}

Next ==
    \/ \E index \in DOMAIN widget_defs : BuildWidgetModel(index)
    \/ \E index \in DOMAIN widget_defs : CreateWidgetToolFunction(index)
    \/ GenerateWidgetTools
    \/ \E widget_path \in DOMAIN widgets_dir.files : LoadWidget(widget_path)
    \/ LoadWidgets
    \/ RegisterWidgetTools
    \/ \E index \in DOMAIN widget_defs :
          \E kwargs \in KeywordArguments(widget_defs[index]) :
              RenderWidgetDefinition(index, kwargs)
    \/ \E tool \in CallableTools :
          \E kwargs \in KeywordArguments(widget_defs[tool.closure_widget_def]) :
              WidgetTool(tool, kwargs)

Spec == Init /\ [][Next]_vars

-----------------------------------------------------------------------------
(* Renders on concurrent threads.  functools.cache looks the key up, and   *)
(* on a miss calls the function and stores what it returned; it holds no   *)
(* lock while the function runs, so a thread can be switched out between   *)
(* its lookup and its store.  Each caller runs render_widget_definition    *)
(* for the one definition of the list; pc is the line it is at.            *)

Caller(kwargs) ==
    [pc |-> "build_widget_model", kwargs |-> kwargs, model |-> NoModel,
     built |-> FALSE, template |-> NoTemplate, compiled |-> FALSE,
     raised |-> FALSE, error |-> NoError, tree |-> NoTree]

ConcurrentInit ==
    /\ widget_defs \in {WithFilePaths(<<WidgetDefinition(<<"A"," ","b">>, schema,
                                                         template, 0)>>) :
                           schema \in ListSchemas, template \in TemplateTexts}
    /\ disk = [path \in DOMAIN widget_defs |-> widget_defs[path].template]
    /\ model_cache = {}
    /\ template_cache = [path \in DOMAIN widget_defs |-> NotCached]
    /\ from_file_calls = [path \in DOMAIN widget_defs |-> 0]
    /\ registered = {}
    /\ widgets_dir = DirectoryOf(widget_defs)
    /\ callers \in [1..MaxCallers -> {Caller(kwargs) :
                                        kwargs \in KeywordArguments(widget_defs[1])}]
    /\ result = Returned("none", 0)

\* line 42, the cache lookup of _build_pydantic_model: a hit returns the
\* cached model, a miss goes on to call the function
CallerLooksUpModel(thread) ==
    LET Lookup(key) ==
            callers' = [callers EXCEPT ![thread] =
                IF key \in CachedKeys(model_cache)
                THEN [@ EXCEPT !.pc = "validate",
                               !.model = CacheGet(model_cache, key)]
                ELSE [@ EXCEPT !.pc = "_build_pydantic_model"]]
    IN  /\ callers[thread].pc = "build_widget_model"
        /\ Lookup(ModelCacheKey(widget_defs[1]))
        /\ UNCHANGED <<widget_defs, disk, model_cache, template_cache,
                       from_file_calls, registered, widgets_dir, result>>

\* lines 20-25 after a miss: the function returns a new model and the cache
\* stores it under the key, whatever is stored there by now
CallerBuildsModel(thread) ==
    LET Store(key, built) ==
            /\ model_cache' = {entry \in model_cache : entry.key # key}
                                  \cup {[key |-> key, value |-> built]}
            /\ callers' = [callers EXCEPT ![thread] =
                              [@ EXCEPT !.pc = "validate", !.model = built,
                                        !.built = TRUE]]
        Build(key) ==
            Store(key, _build_pydantic_model(key.schema_dump, key.widget_name))
    IN  /\ callers[thread].pc = "_build_pydantic_model"
        /\ Build(ModelCacheKey(widget_defs[1]))
        /\ UNCHANGED <<widget_defs, disk, template_cache, from_file_calls,
                       registered, widgets_dir, result>>

\* line 43
CallerValidates(thread) ==
    /\ callers[thread].pc = "validate"
    /\ callers' = [callers EXCEPT ![thread] =
           IF ValidationErrors(@.model, @.kwargs) # {}
           THEN [@ EXCEPT !.pc = "done", !.raised = TRUE,
                          !.error = ValidationError]
           ELSE [@ EXCEPT !.pc = "_load_widget_template"]]
    /\ UNCHANGED <<widget_defs, disk, model_cache, template_cache,
                   from_file_calls, registered, widgets_dir, result>>

\* line 44, the cache lookup of _load_widget_template
CallerLooksUpTemplate(thread) ==
    LET Lookup(path) ==
            callers' = [callers EXCEPT ![thread] =
                IF template_cache[path] # NotCached
                THEN [@ EXCEPT !.pc = "build", !.template = template_cache[path]]
                ELSE [@ EXCEPT !.pc = "from_file"]]
    IN  /\ callers[thread].pc = "_load_widget_template"
        /\ Lookup(widget_defs[1].file_path)
        /\ UNCHANGED <<widget_defs, disk, model_cache, template_cache,
                       from_file_calls, registered, widgets_dir, result>>

\* lines 34-37 after a miss: WidgetTemplate.from_file is called, and what it
\* returns is stored; nothing is stored when it raises
CallerCompilesTemplate(thread) ==
    LET Compile(path) ==
            /\ from_file_calls' = [from_file_calls EXCEPT ![path] = @ + 1]
            /\ IF from_file_raises(disk[path])
               THEN /\ template_cache' = template_cache
                    /\ callers' = [callers EXCEPT ![thread] =
                           [@ EXCEPT !.pc = "done", !.raised = TRUE,
                                     !.error = TemplateEngineError]]
               ELSE /\ template_cache' = [template_cache EXCEPT ![path] = disk[path]]
                    /\ callers' = [callers EXCEPT ![thread] =
                           [@ EXCEPT !.pc = "build", !.template = disk[path],
                                     !.compiled = TRUE]]
    IN  /\ callers[thread].pc = "from_file"
        /\ Compile(widget_defs[1].file_path)
        /\ UNCHANGED <<widget_defs, disk, model_cache, registered, widgets_dir,
                       result>>

\* lines 45-47
CallerRenders(thread) ==
    /\ callers[thread].pc = "build"
    /\ callers' = [callers EXCEPT ![thread] =
           IF build_raises(@.template)
           THEN [@ EXCEPT !.pc = "done", !.raised = TRUE,
                          !.error = TemplateEngineError]
           ELSE [@ EXCEPT !.pc = "done",
                          !.tree = build(callers[thread].template,
                                         DictSet(model_dump(callers[thread].model,
                                                            callers[thread].kwargs),
                                                 Undefined, PyNone))]]
    /\ UNCHANGED <<widget_defs, disk, model_cache, template_cache,
                   from_file_calls, registered, widgets_dir, result>>

ConcurrentNext ==
    \/ \E thread \in DOMAIN callers : CallerLooksUpModel(thread)
    \/ \E thread \in DOMAIN callers : CallerBuildsModel(thread)
    \/ \E thread \in DOMAIN callers : CallerValidates(thread)
    \/ \E thread \in DOMAIN callers : CallerLooksUpTemplate(thread)
    \/ \E thread \in DOMAIN callers : CallerCompilesTemplate(thread)
    \/ \E thread \in DOMAIN callers : CallerRenders(thread)

ConcurrentSpec == ConcurrentInit /\ [][ConcurrentNext]_vars

-----------------------------------------------------------------------------
(* The functions of naming.py on their own.                                *)

\* the characters of the names: an upper-case and a lower-case letter, a
\* digit, the two characters replaced, the underscore, a character removed
NameAlphabet == {"A", "b", "1", " ", "-", "_", "!"}

Names == UNION {[1..n -> NameAlphabet] : n \in 0..MaxNameLen}

NamingInit ==
    /\ widget_defs = <<>>
    /\ disk = <<>>
    /\ model_cache = {}
    /\ template_cache = <<>>
    /\ from_file_calls = <<>>
    /\ registered = {}
    /\ widgets_dir = [kind |-> "unset", files |-> <<>>]
    /\ callers = <<>>
    /\ result = [op |-> "none", given |-> <<>>, returned |-> <<>>]

\* the names a function is given: any name at first, and then what the
\* function before it returned
NamesGiven == IF result.op = "none" THEN Names ELSE {result.returned}

\* _sanitize_tool_name(widget_name)
SanitizeToolName(widget_name) ==
    /\ result' = [op |-> "_sanitize_tool_name", given |-> widget_name,
                  returned |-> _sanitize_tool_name(widget_name)]
    /\ UNCHANGED <<widget_defs, disk, model_cache, template_cache,
                   from_file_calls, registered, widgets_dir, callers>>

\* _to_camel_case(snake_str)
ToCamelCase(snake_str) ==
    /\ result' = [op |-> "_to_camel_case", given |-> snake_str,
                  returned |-> _to_camel_case(snake_str)]
    /\ UNCHANGED <<widget_defs, disk, model_cache, template_cache,
                   from_file_calls, registered, widgets_dir, callers>>

NamingNext ==
    \/ \E widget_name \in NamesGiven : SanitizeToolName(widget_name)
    \/ \E snake_str \in NamesGiven : ToCamelCase(snake_str)

NamingSpec == NamingInit /\ [][NamingNext]_vars

-----------------------------------------------------------------------------
(* The scan of a directory on its own: what lies under the directory is    *)
(* any choice of regular files, directories named like a widget file, and  *)
(* links that do not resolve, that lead outside, or that lead to a path    *)
(* under the directory.                                                    *)

\* paths rglob can yield under one directory
MaxCandidates == 3

\* what can lie at a path: a file that loads, a file without its template,
\* a directory, a link that does not resolve, a link to the outside, or a
\* link to a path under the directory
CandidateKinds ==
    {[kind |-> kind, target |-> 0] :
        kind \in {"good", "bad", "directory", "unresolvable", "outside"}}
    \cup {[kind |-> "link", target |-> path] : path \in 1..MaxCandidates}

EntryOf(path, candidate) ==
    CASE candidate.kind = "directory" ->
             [is_file |-> FALSE, resolves |-> TRUE, canonical |-> path]
      [] candidate.kind = "unresolvable" ->
             [is_file |-> TRUE, resolves |-> FALSE, canonical |-> path]
      [] candidate.kind = "outside" ->
             [is_file |-> TRUE, resolves |-> TRUE, canonical |-> Outside]
      [] candidate.kind = "link" ->
             [is_file |-> TRUE, resolves |-> TRUE,
              canonical |-> candidate.target]
      [] OTHER -> RegularFile(path)

ScannedFile(candidate) ==
    LET Good(schema) ==
            FileOf(WidgetDefinition(<<"A"," ","b">>, schema, "card", 0))
        File(good) ==
            IF candidate.kind = "bad" THEN Without(good, {"template"})
            ELSE good
    IN  File(Good(CHOOSE schema \in ListSchemas : schema.required # {}))

ScanDirectories ==
    {[kind |-> kind, files |-> <<>>, entries |-> <<>>] :
        kind \in {"unset", "missing", "not_a_directory"}}
    \cup UNION {{[kind |-> "directory",
                  files |-> [path \in present |-> ScannedFile(kinds[path])],
                  entries |-> [path \in present |->
                                  EntryOf(path, kinds[path])]] :
                    kinds \in [present -> CandidateKinds]} :
                present \in SUBSET (1..MaxCandidates)}

ScanInit ==
    /\ widgets_dir \in ScanDirectories
    /\ widget_defs = <<>>
    /\ disk = <<>>
    /\ model_cache = {}
    /\ template_cache = <<>>
    /\ from_file_calls = <<>>
    /\ registered = {}
    /\ callers = <<>>
    /\ result = Returned("none", 0)

\* _collect_widget_files(base_dir), for a directory that validates
CollectWidgetFiles ==
    LET Apply(collected) ==
            result' = [Returned("_collect_widget_files", 0) EXCEPT
                           !.selected = collected.widget_files,
                           !.warnings = collected.warnings,
                           !.scanned = TRUE]
    IN  /\ _validate_widgets_dir(widgets_dir) = NoError
        /\ Apply(_collect_widget_files(widgets_dir))
        /\ UNCHANGED <<widget_defs, disk, model_cache, template_cache,
                       from_file_calls, registered, widgets_dir, callers>>

ScanNext ==
    \/ CollectWidgetFiles
    \/ LoadWidgets

ScanSpec == ScanInit /\ [][ScanNext]_vars

-----------------------------------------------------------------------------
(* A widget file rewritten and its set reloaded in one process: the file   *)
(* of the one definition can be given another template, and the list of    *)
(* definitions can be replaced by what load_widgets returns then.  The     *)
(* caches of rendering.py live as long as the process.                     *)

\* the template texts a file can hold: those of TemplateTexts and one more
\* that compiles and renders
ReloadTexts == TemplateTexts \cup {"list"}

\* the directory with the one definition, its file holding the text
ReloadDirectory(widget_def, text) ==
    DirectoryOf(<<[widget_def EXCEPT !.template = text]>>)

ReloadInit ==
    /\ widget_defs \in
           {WithFilePaths(<<WidgetDefinition(<<"A"," ","b">>, schema, text, 0)>>) :
               schema \in {candidate \in ListSchemas : candidate.required # {}},
               text \in ReloadTexts}
    /\ disk \in [DOMAIN widget_defs -> ReloadTexts]
    /\ widgets_dir = ReloadDirectory(widget_defs[1], disk[1])
    /\ callers = <<>>
    /\ model_cache = {}
    /\ template_cache = [path \in DOMAIN widget_defs |-> NotCached]
    /\ from_file_calls = [path \in DOMAIN widget_defs |-> 0]
    /\ registered = {}
    /\ result = Returned("none", 0)

\* the file at widget_path written anew with another template
RewriteWidgetFile(widget_path, text) ==
    /\ disk[widget_path] # text
    /\ disk' = [disk EXCEPT ![widget_path] = text]
    /\ widgets_dir' = ReloadDirectory(widget_defs[widget_path], text)
    /\ result' = Returned("write_text", 0)
    /\ UNCHANGED <<widget_defs, model_cache, template_cache, from_file_calls,
                   registered, callers>>

\* the set of definitions replaced by load_widgets(widgets_dir), for a new
\* registry
ReloadWidgets ==
    LET Apply(loaded) ==
            /\ ~loaded.raised
            /\ widget_defs' = loaded.defs
            /\ registered' = {}
            /\ result' = [Returned("load_widgets", 0) EXCEPT
                              !.loaded = loaded.defs,
                              !.selected = FilePaths(loaded.defs),
                              !.warnings = loaded.warnings,
                              !.scanned = loaded.scanned,
                              !.opened = loaded.opened]
    IN  /\ Apply(load_widgets(widgets_dir))
        /\ UNCHANGED <<disk, model_cache, template_cache, from_file_calls,
                       widgets_dir, callers>>

ReloadNext ==
    \/ Next
    \/ \E widget_path \in DOMAIN disk :
          \E text \in ReloadTexts : RewriteWidgetFile(widget_path, text)
    \/ ReloadWidgets

ReloadSpec == ReloadInit /\ [][ReloadNext]_vars

-----------------------------------------------------------------------------
(* Properties.                                                             *)

RenderOps == {"render_widget_definition", "widget_tool"}

\* the definition the last operation was given
GivenDef == widget_defs[result.index]

\* the tools that exist: the one the last operation returned or called, and
\* the registered ones
ExistingTools == CallableTools

\* the schema property of a name
PropertyNamed(schema, name) ==
    schema.properties[CHOOSE i \in DOMAIN schema.properties :
                          schema.properties[i].name = name]

\* C1: the model build_widget_model returns for a definition (and the model
\* a render validates with) has one field per key of the schema's
\* properties and no other field, and a field is required iff its name is in
\* the schema's required list.
C1_ModelFieldsMatchSchema ==
    result.op \in {"build_widget_model"} \cup RenderOps =>
        LET schema == GivenDef.json_schema
            fields == result.model.fields
        IN  /\ FieldNames(result.model) = PropertyNames(schema)
            /\ Len(fields) = Len(schema.properties)
            /\ \A i \in DOMAIN fields :
                   fields[i].required <=> fields[i].name \in schema.required

\* a model of one required and one optional field was built
C1_Witness ==
    /\ result.op = "build_widget_model"
    /\ Len(result.model.fields) = 2
    /\ \E i, j \in DOMAIN result.model.fields :
           result.model.fields[i].required /\ ~result.model.fields[j].required

\* what C2 says of one tool
ToolDeclaresModelFields(tool) ==
    LET widget_def == widget_defs[tool.made_from]
        model == CacheGet(model_cache, ModelCacheKey(widget_def))
        parameters == tool.parameters
    IN  /\ Len(parameters) = Len(model.fields)
        /\ \A i \in DOMAIN parameters :
               /\ parameters[i].name = model.fields[i].name
               /\ parameters[i].kind = "KEYWORD_ONLY"
               /\ parameters[i].default =
                      (IF model.fields[i].required THEN ParameterEmpty
                       ELSE model.fields[i].default)
               /\ LET property == PropertyNamed(widget_def.json_schema,
                                                parameters[i].name)
                  IN  (~model.fields[i].required /\ ~property.has_default)
                          => parameters[i].default = PyNone
        /\ tool.return_annotation = "WidgetComponentBase"

\* C2: every synthesized tool declares one keyword-only parameter per field
\* of the compiled model, in the model's field order, with no default for a
\* required field and the field's default (None when the schema gives none)
\* for an optional one, and returns WidgetComponentBase.
C2_SignatureFollowsModel ==
    \A tool \in ExistingTools : ToolDeclaresModelFields(tool)

\* a tool of a required and an optional parameter was synthesized
C2_Witness ==
    /\ result.op = "_create_widget_tool_function"
    /\ ~result.raised
    /\ Len(result.tool.parameters) = 2
    /\ \E i, j \in DOMAIN result.tool.parameters :
           /\ result.tool.parameters[i].default = ParameterEmpty
           /\ result.tool.parameters[j].default = PyNone

\* C3: _create_widget_tool_function returns a tool, and does not raise, for
\* every definition whose schema is a valid object schema, whatever its
\* property names and its display name.
C3_SynthesisNeverRaises ==
    result.op = "_create_widget_tool_function" => ~result.raised

\* C4: the __name__ of every synthesized tool is
\* to_type_name(sanitize_tool_name(name)) of the definition it was made from.
C4_ToolNameIsTypeName ==
    \A tool \in ExistingTools :
        tool.name = _to_camel_case(_sanitize_tool_name(widget_defs[tool.made_from].name))

\* the tool of the display name "1a" was synthesized, and is named "1A"
C4_Witness ==
    /\ result.op = "_create_widget_tool_function"
    /\ ~result.raised
    /\ GivenDef.name = <<"1","a">>
    /\ result.tool.name = <<"1","A">>

\* the call supplies every required field, and supplies nothing of a wrong type
SuppliesRequired(schema, kwargs) ==
    /\ schema.required \subseteq DOMAIN kwargs
    /\ \A name \in DOMAIN kwargs :
           TypeAccepts(PropertyNamed(schema, name).type, kwargs[name])

\* the value the schema declares for an omitted optional field
DeclaredDefault(property) ==
    IF property.has_default THEN property.default ELSE PyNone

\* the optional fields the call omits
OmittedOptional(schema, kwargs) ==
    (PropertyNames(schema) \ schema.required) \ DOMAIN kwargs

C6_ValidationFailsBeforeTemplate ==
    [][(/\ result'.op \in RenderOps
        /\ ~SuppliesRequired(widget_defs[result'.index].json_schema, result'.kwargs))
       => /\ result'.raised
          /\ result'.error = ValidationError
          /\ result'.tree = NoTree
          /\ template_cache' = template_cache
          /\ from_file_calls' = from_file_calls]_vars

\* a tool call failed validation while no template of its widget was cached
C6_Witness ==
    /\ result.op = "widget_tool"
    /\ result.error = ValidationError
    /\ template_cache[GivenDef.file_path] = NotCached
    /\ ~from_file_raises(disk[GivenDef.file_path])

\* C7 as claimed: over any sequence of syntheses and renders the template of
\* a widget is compiled (WidgetTemplate.from_file is called) at most once.
C7_FromFileCalledAtMostOnce ==
    \A path \in DOMAIN from_file_calls : from_file_calls[path] <= 1

\* C7 as amended: synthesis never calls from_file; a render calls it at most
\* once, and only when no compiled template of the widget is cached; once a
\* compilation has succeeded the template stays cached and from_file is not
\* called for it again.  (A compilation that raises caches nothing, so the
\* next render calls from_file again.)
C7_CompiledOnceItSucceeds ==
    [][/\ result'.op \notin RenderOps => from_file_calls' = from_file_calls
       /\ \A path \in DOMAIN from_file_calls :
              /\ from_file_calls'[path] <= from_file_calls[path] + 1
              /\ from_file_calls'[path] # from_file_calls[path]
                     => template_cache[path] = NotCached
              /\ template_cache[path] # NotCached
                     => /\ template_cache'[path] = template_cache[path]
                        /\ from_file_calls'[path] = from_file_calls[path]
              /\ (template_cache[path] = NotCached /\ template_cache'[path] # NotCached)
                     => from_file_calls'[path] = from_file_calls[path] + 1]_vars

\* a render returned from the cached template: from_file was called once
\* for the widget, by an earlier render
C7_Witness ==
    /\ result.op = "widget_tool"
    /\ ~result.raised
    /\ ~result.from_file_called
    /\ from_file_calls[GivenDef.file_path] = 1
    /\ template_cache[GivenDef.file_path] # NotCached

\* C8: a call of a tool validates with the model of, and loads the template
\* of, the definition the tool was synthesized from, whichever definitions
\* were registered with it.
C8_ToolBoundToItsDefinition ==
    result.op = "widget_tool" =>
        LET widget_def == widget_defs[result.tool.made_from]
        IN  /\ result.index = result.tool.made_from
            /\ result.template_path = widget_def.file_path
            /\ result.model =
                   _build_pydantic_model(ModelCacheKey(widget_def).schema_dump,
                                         widget_def.name)

\* two widgets of different schemas are registered, and the tool of the
\* first one was called
C8_Witness ==
    /\ result.op = "widget_tool"
    /\ Len(widget_defs) >= 2
    /\ Cardinality(registered) >= 2
    /\ result.tool.made_from = 1
    /\ result.tool \in {entry.tool : entry \in registered}
    /\ widget_defs[1].json_schema # widget_defs[Len(widget_defs)].json_schema

\* C9: the context of every render has the key "undefined" bound to None,
\* also when the schema declares a property named "undefined", and has every
\* field of the compiled model as a key.
C9_UndefinedAlwaysNone ==
    (result.op \in RenderOps /\ result.context # NoContext)
    => /\ Undefined \in DictKeys(result.context)
       /\ DictGet(result.context, Undefined) = PyNone
       /\ FieldNames(result.model) \subseteq DictKeys(result.context)
       /\ Len(result.context) = Cardinality(DictKeys(result.context))

\* a render was given a value for a schema property named "undefined"
C9_Witness ==
    /\ result.op \in RenderOps
    /\ ~result.raised
    /\ Undefined \in DOMAIN result.kwargs
    /\ result.kwargs[Undefined] = PyStr("v")

\* C10: when the template fails to compile or to render, the error raised is
\* a RenderError that carries the name of the widget.
C10_TemplateFailureIsRenderError ==
    (result.op \in RenderOps /\ result.raised /\ result.error # ValidationError)
    => /\ result.error.type = "RenderError"
       /\ result.error.widget_name = GivenDef.name

\* schemas equal up to the order of their object keys
SameUpToKeyOrder(first, second) ==
    /\ Range(first.properties) = Range(second.properties)
    /\ Len(first.properties) = Len(second.properties)
    /\ first.required = second.required

\* same field names, same field order, same required flags, same defaults
FieldEquivalent(first, second) ==
    /\ Len(first.fields) = Len(second.fields)
    /\ \A i \in DOMAIN first.fields :
           /\ first.fields[i].name = second.fields[i].name
           /\ first.fields[i].required = second.fields[i].required
           /\ first.fields[i].default = second.fields[i].default

\* C11: the model build_widget_model returned for a definition is
\* field-equivalent to the model a second call returns for any definition of
\* the same name whose schema is equal up to the order of its keys, whether
\* that second call finds the cache as it is now (and then it is a hit that
\* adds no entry) or finds it empty.
C11_BuildIsOrderIndependent ==
    result.op = "build_widget_model" =>
        \A other \in DOMAIN widget_defs :
            (/\ widget_defs[other].name = GivenDef.name
             /\ SameUpToKeyOrder(widget_defs[other].json_schema, GivenDef.json_schema))
            => /\ FieldEquivalent(result.model,
                                  build_widget_model(model_cache, widget_defs[other]).model)
               /\ build_widget_model(model_cache, widget_defs[other]).cache = model_cache
               /\ FieldEquivalent(result.model,
                                  build_widget_model({}, widget_defs[other]).model)

\* the model of the second of two definitions was built, whose schema has
\* the two keys of the first one's in the other order
C11_Witness ==
    /\ result.op = "build_widget_model"
    /\ result.index = 2
    /\ widget_defs[1].name = widget_defs[2].name
    /\ widget_defs[1].json_schema # widget_defs[2].json_schema
    /\ SameUpToKeyOrder(widget_defs[1].json_schema, widget_defs[2].json_schema)
    /\ Len(result.model.fields) = 2
    /\ Cardinality(model_cache) = 1

\* the position of the last definition that sanitizes to a tool name
LastNamed(defs, tool_name) ==
    CHOOSE i \in DOMAIN defs :
        /\ _sanitize_tool_name(defs[i].name) = tool_name
        /\ \A j \in DOMAIN defs :
               _sanitize_tool_name(defs[j].name) = tool_name => j <= i

\* C12: when generate_widget_tools returns, having started from an empty
\* registry, the registered names are the sanitized names of the
\* definitions, one entry each, and each name maps to the tool synthesized
\* from the last definition of the list that sanitizes to it.
C12_RegistryAfterGenerate ==
    [][(/\ registered = {}
        /\ result'.op = "generate_widget_tools"
        /\ ~result'.raised)
       => /\ {entry.name : entry \in registered'} =
                 {_sanitize_tool_name(widget_defs[i].name) : i \in DOMAIN widget_defs}
          /\ \A first, second \in registered' :
                 first.name = second.name => first = second
          /\ \A entry \in registered' :
                 /\ entry.tool.made_from = LastNamed(widget_defs, entry.name)
                 /\ entry.tool.closure_widget_def = entry.tool.made_from]_vars

\* two definitions of different display names and schemas that sanitize to
\* one tool name were registered: one tool is registered, the second's
C12_Witness ==
    /\ result.op = "generate_widget_tools"
    /\ ~result.raised
    /\ Len(widget_defs) = 2
    /\ widget_defs[1].name # widget_defs[2].name
    /\ widget_defs[1].json_schema # widget_defs[2].json_schema
    /\ _sanitize_tool_name(widget_defs[1].name) = _sanitize_tool_name(widget_defs[2].name)
    /\ Cardinality(registered) = 1
    /\ \A entry \in registered : entry.tool.made_from = 2

\* C13: when load_widgets raises for the directory (no directory, or a file
\* that does not load), register_widget_tools raises that same error and
\* the registry is as it was before the call.
C13_NoRegistrationWhenDiscoveryFails ==
    [][(/\ result'.op = "register_widget_tools"
        /\ load_widgets(widgets_dir).raised)
       => /\ registered' = registered
          /\ result'.raised
          /\ result'.error = load_widgets(widgets_dir).error]_vars

\* registration failed on the second file of a directory whose first file
\* loads
C13_Witness ==
    /\ result.op = "register_widget_tools"
    /\ result.raised
    /\ widgets_dir.kind = "directory"
    /\ DOMAIN widgets_dir.files = {1, 2}
    /\ ~load_widget(widgets_dir.files, 1).raised
    /\ load_widget(widgets_dir.files, 2).raised
    /\ registered = {}

\* C14: with concurrent callers rendering one widget from cold caches, the
\* model of the widget's key is built by at most one of them and the
\* template of the widget is compiled by at most one of them.
C14_PopulatedOncePerKey ==
    /\ Cardinality({thread \in DOMAIN callers : callers[thread].built}) <= 1
    /\ Cardinality({thread \in DOMAIN callers : callers[thread].compiled}) <= 1

\* C15: sanitizing what _sanitize_tool_name returned returns it unchanged.
C15_SanitizeIsIdempotent ==
    result.op = "_sanitize_tool_name" =>
        _sanitize_tool_name(result.returned) = result.returned

\* the name "1A" was sanitized, to "_1a"
C15_Witness ==
    /\ result.op = "_sanitize_tool_name"
    /\ result.given = <<"1", "A">>
    /\ result.returned = <<"_", "1", "a">>

\* each character lower-cased, a space or a hyphen replaced by an underscore
LowerCasedAndReplaced(name) ==
    [i \in DOMAIN name |->
        IF name[i] \in {" ", "-"} THEN "_" ELSE ToLower(name[i])]

\* the alphanumeric characters and the underscores of a text, in order
AlnumAndUnderscores(text) ==
    LET Kept(c) == IsAlnum(c) \/ c = "_"
    IN  SelectSeq(text, Kept)

\* C16: _sanitize_tool_name returns the name lower-cased, each space and
\* each hyphen replaced by one underscore, every other character that is
\* not alphanumeric or an underscore removed, and an underscore prepended
\* exactly when that starts with a digit; so what it returns never starts
\* with a digit, has only alphanumerics and underscores, and is empty for a
\* name without any character that is kept.
C16_SanitizeReturns ==
    result.op = "_sanitize_tool_name" =>
        LET kept == AlnumAndUnderscores(LowerCasedAndReplaced(result.given))
        IN  /\ result.returned =
                   (IF kept # <<>> /\ IsDigit(kept[1]) THEN <<"_">> \o kept ELSE kept)
            /\ result.returned # <<>> => ~IsDigit(result.returned[1])
            /\ \A i \in DOMAIN result.returned :
                   IsAlnum(result.returned[i]) \/ result.returned[i] = "_"
            /\ (\A i \in DOMAIN result.given :
                    ~IsAlnum(result.given[i]) /\ result.given[i] \notin {" ", "-", "_"})
                   => result.returned = <<>>

\* the name "1 -" was sanitized: the underscore is prepended and the space
\* and the hyphen give two underscores
C16_Witness ==
    /\ result.op = "_sanitize_tool_name"
    /\ result.given = <<"1", " ", "-">>
    /\ result.returned = <<"_", "1", "_", "_">>

\* the first positions of the non-empty underscore-separated segments
SegmentStarts(s) ==
    {i \in DOMAIN s : s[i] # "_" /\ (i = 1 \/ s[i - 1] = "_")}

\* the segment that starts at a position: up to the next underscore
SegmentAt(s, start) ==
    SubSeq(s, start,
           CHOOSE last \in start..Len(s) :
               /\ \A i \in start..last : s[i] # "_"
               /\ last = Len(s) \/ s[last + 1] = "_")

\* a segment title-cased: a letter is upper-cased when no letter precedes
\* it, and lower-cased otherwise
TitleCased(segment) ==
    [i \in DOMAIN segment |->
        IF ~IsAlpha(segment[i]) THEN segment[i]
        ELSE IF i > 1 /\ IsAlpha(segment[i - 1]) THEN ToLower(segment[i])
        ELSE ToUpper(segment[i])]

RECURSIVE TitleCasedSegments(_, _)
TitleCasedSegments(s, starts) ==
    IF starts = {} THEN <<>>
    ELSE LET first == CHOOSE i \in starts : \A j \in starts : i <= j
         IN  TitleCased(SegmentAt(s, first)) \o TitleCasedSegments(s, starts \ {first})

\* C17: _to_camel_case returns the title-cased non-empty underscore-separated
\* segments of its argument, concatenated in order; the empty segments of
\* leading, trailing and consecutive underscores add nothing, what is
\* returned has no underscore, and "flight_tracker" gives "FlightTracker".
C17_CamelCaseJoinsTitledSegments ==
    /\ result.op = "_to_camel_case" =>
           /\ result.returned = TitleCasedSegments(result.given, SegmentStarts(result.given))
           /\ "_" \notin Range(result.returned)
    /\ _to_camel_case(<<"f","l","i","g","h","t","_","t","r","a","c","k","e","r">>)
           = <<"F","l","i","g","h","t","T","r","a","c","k","e","r">>

\* "_b_" was converted, to "B"
C17_Witness ==
    /\ result.op = "_to_camel_case"
    /\ result.given = <<"_", "b", "_">>
    /\ result.returned = <<"B">>

\* the file the last load_widget was given
FileGiven == widgets_dir.files[result.widget_path]

\* the required fields the file's object lacks
FieldsLacking(file) == Range(required_fields) \ DOMAIN file.data

C19_NonTextTemplateIsTypeError ==
    (/\ result.op = "load_widget"
     /\ FileGiven.syntax_ok
     /\ "template" \in DOMAIN FileGiven.data
     /\ FileGiven.data["template"].py_type # "str")
    => /\ result.raised
       /\ "TypeError" \in ExceptionBases(result.error.type)
       /\ result.error.type # MissingFieldsError(<<>>).type

\* C20: load_widget on a file that json.load cannot parse raises the parse
\* error, whose class is not the class of the missing-fields error nor of
\* the directory errors; it raises it whatever fields the text spells out,
\* and names no field.
C20_ParseErrorIsDistinct ==
    (result.op = "load_widget" /\ ~FileGiven.syntax_ok)
    => /\ result.raised
       /\ result.loaded = <<>>
       /\ result.error = JSONDecodeError
       /\ result.error.type # MissingFieldsError(<<>>).type
       /\ result.error.type \notin {DirRequiredError.type, DirDoesNotExistError.type,
                                    DirNotADirectoryError.type}
       /\ result.error.fields = <<>>

\* a file that does not parse, and whose text lacks the template, was loaded
C20_Witness ==
    /\ result.op = "load_widget"
    /\ ~FileGiven.syntax_ok
    /\ "template" \in FieldsLacking(FileGiven)
    /\ result.error.type = "JSONDecodeError"

\* what load_widgets returns from an undamaged directory is the list the
\* other operations are given
LoadedDefinitionsAreHeld ==
    (result.op \in {"load_widgets", "register_widget_tools"}
        /\ widgets_dir = DirectoryOf(widget_defs))
    => (~result.raised \/ result.op = "register_widget_tools")
       /\ (~result.raised => result.loaded = widget_defs)

-----------------------------------------------------------------------------
(* The scan of the directory.                                              *)

ScanOps == {"_collect_widget_files", "load_widgets"}

\* a candidate the scan can keep: a file that resolves to a path under the
\* directory
Eligible(path) ==
    /\ widgets_dir.entries[path].is_file
    /\ widgets_dir.entries[path].resolves
    /\ widgets_dir.entries[path].canonical # Outside

\* a candidate the scan warns about
Unresolvable(path) ==
    /\ widgets_dir.entries[path].is_file
    /\ ~widgets_dir.entries[path].resolves
LeadsOutside(path) ==
    /\ widgets_dir.entries[path].is_file
    /\ widgets_dir.entries[path].resolves
    /\ widgets_dir.entries[path].canonical = Outside

\* the first candidate in scan order that resolves to its canonical path
FirstOccurrence(path) ==
    /\ Eligible(path)
    /\ \A other \in DOMAIN widgets_dir.entries :
           (/\ PathLess(other, path)
            /\ Eligible(other))
           => widgets_dir.entries[other].canonical
                  # widgets_dir.entries[path].canonical

\* a later candidate that resolves to the canonical path of an earlier one
Duplicate(path) == Eligible(path) /\ ~FirstOccurrence(path)

WarningsAbout(path) ==
    {i \in DOMAIN result.warnings : result.warnings[i].path = path}

\* the files the scan kept, in the order it kept them, and the first of
\* them that does not load
KeptFiles == _collect_widget_files(widgets_dir).widget_files
FailsToLoad(path) == load_widget(widgets_dir.files, path).raised
FirstFailing ==
    CHOOSE i \in DOMAIN KeptFiles :
        /\ FailsToLoad(KeptFiles[i])
        /\ \A j \in 1..(i - 1) : ~FailsToLoad(KeptFiles[j])

\* C21: load_widgets raises the configuration error of the directory
\* argument when it is None, does not exist or is not a directory, and then
\* it has neither scanned the directory nor opened a file.
C21_BadDirectoryFailsBeforeScan ==
    (/\ result.op = "load_widgets"
     /\ widgets_dir.kind \in {"unset", "missing", "not_a_directory"})
    => /\ result.raised
       /\ result.error = (CASE widgets_dir.kind = "unset" -> DirRequiredError
                            [] widgets_dir.kind = "missing" -> DirDoesNotExistError
                            [] OTHER -> DirNotADirectoryError)
       /\ "ValueError" \in ExceptionBases(result.error.type)
       /\ ~result.scanned
       /\ result.opened = <<>>
       /\ result.loaded = <<>>
       /\ result.warnings = <<>>

C21_Witness ==
    /\ result.op = "load_widgets"
    /\ widgets_dir.kind = "not_a_directory"
    /\ result.raised
    /\ ~result.scanned

\* C22: when a file the scan kept does not load, load_widgets raises the
\* error of the first such file in scan order, returns no definition, and
\* has opened the files up to that one and none after it.
C22_AllOrNothing ==
    (/\ result.op = "load_widgets"
     /\ widgets_dir.kind = "directory"
     /\ \E i \in DOMAIN KeptFiles : FailsToLoad(KeptFiles[i]))
    => /\ result.raised
       /\ result.error
              = load_widget(widgets_dir.files, KeptFiles[FirstFailing]).error
       /\ result.loaded = <<>>
       /\ result.opened = SubSeq(KeptFiles, 1, FirstFailing)

C22_Witness ==
    /\ result.op = "load_widgets"
    /\ result.raised
    /\ result.loaded = <<>>
    /\ Len(result.opened) = 2
    /\ Len(KeptFiles) = 3
    /\ ~FailsToLoad(KeptFiles[1])

\* C23: a candidate that does not resolve or that resolves to a path outside
\* the directory is not among the files returned and has one warning logged
\* about it; the scan does not raise, load_widgets raises only for a file it
\* opened, and every first occurrence of a canonical path is returned.
C23_SkippedWithWarning ==
    /\ (/\ result.op \in ScanOps
        /\ widgets_dir.kind = "directory")
       => /\ \A path \in DOMAIN widgets_dir.entries :
                 (Unresolvable(path) \/ LeadsOutside(path))
                 => /\ path \notin Range(result.selected)
                    /\ path \notin Range(result.opened)
                    /\ Cardinality(WarningsAbout(path)) = 1
                    /\ \A i \in WarningsAbout(path) :
                           result.warnings[i]
                               = IF Unresolvable(path)
                                 THEN UnresolvableWarning(path)
                                 ELSE OutsideWarning(path)
          /\ result.raised
                 => \E path \in Range(result.opened) : FailsToLoad(path)
          /\ ~result.raised
                 => \A path \in DOMAIN widgets_dir.entries :
                        FirstOccurrence(path) => path \in Range(result.selected)
    /\ result.op = "_collect_widget_files" => ~result.raised

C23_Witness ==
    /\ result.op = "_collect_widget_files"
    /\ \E first, second, third \in DOMAIN widgets_dir.entries :
           /\ PathLess(first, second)
           /\ PathLess(second, third)
           /\ Unresolvable(first)
           /\ LeadsOutside(second)
           /\ result.selected = <<third>>
           /\ result.warnings
                  = <<UnresolvableWarning(first), OutsideWarning(second)>>

\* C24: the files _collect_widget_files returns have distinct canonical
\* paths: of the candidates that resolve to one path under the directory
\* the first in scan order is returned and no other, no warning is logged
\* about the others, and a candidate that did not resolve or led outside
\* does not stand in for a later one.
C24_FirstOccurrenceWins ==
    (/\ result.op = "_collect_widget_files"
     /\ widgets_dir.kind = "directory")
    => /\ \A i, j \in DOMAIN result.selected :
              i # j => widgets_dir.entries[result.selected[i]].canonical
                           # widgets_dir.entries[result.selected[j]].canonical
       /\ \A path \in DOMAIN widgets_dir.entries :
              /\ FirstOccurrence(path) <=> path \in Range(result.selected)
              /\ Duplicate(path) => WarningsAbout(path) = {}
              /\ ~widgets_dir.entries[path].is_file => WarningsAbout(path) = {}

C24_Witness ==
    /\ result.op = "_collect_widget_files"
    /\ \E first, second, third \in DOMAIN widgets_dir.entries :
           /\ PathLess(first, second)
           /\ PathLess(second, third)
           /\ Unresolvable(first)
           /\ Duplicate(third)
           /\ widgets_dir.entries[third].canonical
                  = widgets_dir.entries[second].canonical
           /\ result.selected = <<second>>
           /\ WarningsAbout(third) = {}

\* a path comparing lower than another, component by component
ComesBefore(path, other) == PartsLess(PathParts(path), PathParts(other))

\* C25: the files are returned in the order pathlib sorts their paths, by
\* their components and not by their text: of any two returned the one
\* whose path compares lower comes first, and a scan that follows a scan
\* of the same kind returns the same sequence.
C25_SortedByPathComponents ==
    /\ [](result.op \in ScanOps
          => \A i, j \in DOMAIN result.selected :
                 i < j => ComesBefore(result.selected[i], result.selected[j]))
    /\ [][(/\ result.op \in ScanOps
           /\ result'.op = result.op)
          => /\ result'.selected = result.selected
             /\ result'.loaded = result.loaded]_vars

C25_Witness ==
    /\ result.op = "load_widgets"
    /\ ~result.raised
    /\ FilePaths(result.loaded) = <<1, 2>>
    /\ PathStringLess(2, 1)

\* discover returns the definitions in the order of the text of their paths
C25_SortedByPathText ==
    result.op \in ScanOps
    => \A i, j \in DOMAIN result.selected :
           i < j => PathStringLess(result.selected[i], result.selected[j])

\* C26: when the scan keeps no file, load_widgets does not raise, returns
\* the empty list, and logs the warning that no definitions were found once,
\* after one warning for each candidate that did not resolve or led outside.
C26_EmptyScanWarns ==
    (/\ result.op = "load_widgets"
     /\ widgets_dir.kind = "directory"
     /\ \A path \in DOMAIN widgets_dir.entries : ~FirstOccurrence(path))
    => /\ ~result.raised
       /\ result.loaded = <<>>
       /\ result.warnings # <<>>
       /\ result.warnings[Len(result.warnings)] = NoWidgetsWarning
       /\ Len(result.warnings)
              = 1 + Cardinality({path \in DOMAIN widgets_dir.entries :
                                     Unresolvable(path) \/ LeadsOutside(path)})

C26_Witness ==
    /\ result.op = "load_widgets"
    /\ ~result.raised
    /\ result.loaded = <<>>
    /\ \E first, second \in DOMAIN widgets_dir.entries :
           /\ Unresolvable(first)
           /\ ~widgets_dir.entries[second].is_file
    /\ Len(result.warnings) = 2

\* when the scan keeps no file load_widgets logs one warning in all
C26_OneWarningInAll ==
    (/\ result.op = "load_widgets"
     /\ widgets_dir.kind = "directory"
     /\ \A path \in DOMAIN widgets_dir.entries : ~FirstOccurrence(path))
    => /\ ~result.raised
       /\ result.loaded = <<>>
       /\ Len(result.warnings) = 1

-----------------------------------------------------------------------------
(* The definitions as the operations leave them.                           *)

\* C27: no step of build_widget_model, _create_widget_tool_function,
\* render_widget_definition, generate_widget_tools or a tool changes a
\* field of a definition; a render that built its context put the key
\* undefined into that context and into neither the schema nor the preview
\* of its definition.
C27_DefinitionsAreReadOnly ==
    [][/\ widget_defs' = widget_defs
       /\ (/\ result'.op \in RenderOps
           /\ result'.context # NoContext)
          => /\ Undefined \in DictKeys(result'.context)
             /\ widget_defs'[result'.index].json_schema
                    = widget_defs[result'.index].json_schema
             /\ widget_defs'[result'.index].output_json_preview
                    = widget_defs[result'.index].output_json_preview]_vars

C27_Witness ==
    /\ result.op = "widget_tool"
    /\ ~result.raised
    /\ DictGet(result.context, Undefined) = PyNone
    /\ Undefined \notin PropertyNames(widget_defs[result.index].json_schema)
    /\ Undefined \notin DictKeys(widget_defs[result.index].output_json_preview.context)
    /\ ~result.from_file_called
    /\ model_cache # {}
    /\ registered # {}

-----------------------------------------------------------------------------
(* The template a render goes through.                                     *)

\* C28: a render that returns has rendered through the template of the
\* definition it was given.
C28_RenderUsesTemplateOfDefinition ==
    (/\ result.op \in RenderOps
     /\ ~result.raised)
    => result.tree.template = widget_defs[result.index].template

-----------------------------------------------------------------------------
(* The names and the order of registration.                                *)

\* C29: every name a tool is registered under is a non-empty string.
C29_RegisteredNamesNonEmpty ==
    \A entry \in registered : entry.name # <<>>

\* the definitions a failed registration was working through
DefsGiven ==
    IF result'.op = "generate_widget_tools" THEN widget_defs ELSE result'.loaded

\* the last definition before position k that sanitizes to the tool name
\* of definition i
LastNamedBefore(defs, k, i) ==
    CHOOSE j \in 1..(k - 1) :
        /\ _sanitize_tool_name(defs[j].name) = _sanitize_tool_name(defs[i].name)
        /\ \A later \in (j + 1)..(k - 1) :
               _sanitize_tool_name(defs[later].name)
                   # _sanitize_tool_name(defs[i].name)

====
